---- MODULE Spec2Model ----
(***************************************************************************)
(* Ticket lifecycle of pdis-tickets: the route handlers that change a      *)
(* ticket's status (approvals, submitter cancel, assignment / start of     *)
(* development, status update), as they run against the shared database.   *)
(* Every handler is a sequence of awaited database calls; another request  *)
(* may run between two awaited calls of the same handler.                  *)
(* The two routes that create tickets (self-service and the SAP            *)
(* integration) and the ticket numbers they hand out are modelled on the   *)
(* Ticket table they insert into.                                          *)
(* The routes that show a ticket and take comments and files on it are     *)
(* modelled on the ticket rows the lifecycle leaves behind.                *)
(***************************************************************************)
EXTENDS Integers, Sequences, FiniteSets, TLC

\* ------------------------------------------------------------------ bounds
\* number of times a handler may start while another handler is between two
\* of its awaited database calls
MaxOverlaps == 1
\* number of times the database may reject a status-history insert
MaxFaults == 1
\* number of Ticket rows the creation routes fill the table up to
MaxTickets == 3
\* number of times the month changes
MaxMonths == 1
\* number of TicketComment and TicketAttachment rows the ticket gets
MaxPosts == 2

\* ------------------------------------------------------------ basic values
NULL == "null"
\* a field absent from a request body (zod .optional())
Undefined == "undefined"
\* a Date column that is null; every real date is >= 1
NoDate == 0

\* `!str` of a string, null or undefined
Not(str) == str = NULL \/ str = Undefined \/ str = ""

TicketStatus ==
  {"FOR_PD_APPROVAL", "SUBMITTED", "DEV_IN_PROGRESS", "QA_TESTING",
   "PD_TESTING", "FOR_DEPLOYMENT", "DEPLOYED", "CANCELLED"}

TerminalStatus == {"CANCELLED", "DEPLOYED"}

\* ------------------------------------------------------------------- users
\* The sessions that call the API: the submitter, an approver, a project
\* manager, a developer, a QA tester and a department head.
Users == {"sub", "apr", "pm", "dev", "qa", "head"}

UserEmail ==
  [u \in Users |->
     CASE u = "sub"  -> "torie.gequillana@projectduo.com.ph"
       [] u = "apr"  -> "Von.Mauleon@ProjectDuo.com.ph"
       [] u = "pm"   -> "pm@projectduo.com.ph"
       [] u = "dev"  -> "dev@projectduo.com.ph"
       [] u = "qa"   -> "qa@projectduo.com.ph"
       [] u = "head" -> NULL]

UserTicketRole ==
  [u \in Users |->
     CASE u = "pm"  -> "PROJECT_MANAGER"
       [] u = "dev" -> "DEVELOPER"
       [] u = "qa"  -> "QA"
       [] OTHER     -> "NORMAL"]

\* isDepartmentHead || isOfficeHead || isGroupDirector of the session user
UserIsHead == [u \in Users |-> u = "head"]

\* String.prototype.toLowerCase on the e-mail addresses of the model
toLowerCase(email) ==
  IF email = "Von.Mauleon@ProjectDuo.com.ph"
  THEN "von.mauleon@projectduo.com.ph"
  ELSE email

TICKET_APPROVERS ==
  {"von.mauleon@projectduo.com.ph", "vida.gerado@projectduo.com.ph",
   "julie.mendoza@projectduo.com.ph", "av.mauleon@gmail.com"}

isTicketApprover(email) ==
  IF email = NULL THEN FALSE ELSE toLowerCase(email) \in TICKET_APPROVERS

\* ------------------------------------------------------------------- state
VARIABLES
  ticket,    \* the Ticket row
  history,   \* the TicketStatusHistory rows of the ticket, in creation order
  reqs,      \* the handlers that are between two awaited database calls
  resp,      \* the response most recently returned to a caller
  clock,     \* the value the next `new Date()` returns
  overlaps,  \* times a handler may still start while another is in flight
  faults,    \* status-history inserts the database may still reject
  tickets,   \* the Ticket rows as the creation routes inserted them
  entries,   \* the TicketStatusHistory rows the creation routes inserted
  creates,   \* the creation handlers between two awaited database calls
  today,     \* year and month `new Date()` falls in
  env,       \* deployment: process.env, the User table, the Ticket schema
  comments,  \* the TicketComment rows of the ticket, in creation order
  attachments, \* the TicketAttachment rows of the ticket, in creation order
  body       \* what the latest GET /api/tickets/[id] returned besides resp

\* what the creation routes read and write
created == <<tickets, entries, creates, today, env>>

\* what the routes that show a ticket and take comments and files write
served == <<comments, attachments, body>>

vars ==
  <<ticket, history, reqs, resp, clock, overlaps, faults, created, served>>

ReqIds == 1..(MaxOverlaps + 1)

Idle ==
  [pc |-> "idle", kind |-> NULL, actor |-> NULL, readStatus |-> NULL,
   newStatus |-> NULL, reason |-> NULL, developerId |-> NULL, qaId |-> NULL]

\* a response: the request it answers (approve, reject, cancel, assign,
\* status; approvals when the route answers before it parses the body), its
\* HTTP status and the `error` of its JSON body
NoResponse == [kind |-> NULL, code |-> 0, error |-> NULL]

Response(kind, code, error) == [kind |-> kind, code |-> code, error |-> error]

\* a response that carries no ticket
NoBody == [statusHistory |-> <<>>, found |-> FALSE]

HistoryEntry(from, to, by, reason) ==
  [fromStatus |-> from, toStatus |-> to, changedById |-> by, reason |-> reason]

\* the Ticket row written by POST /api/tickets
NewTicket(submitter) ==
  [status |-> "FOR_PD_APPROVAL", submitterId |-> submitter,
   processOwnerId |-> NULL, assignedDeveloperId |-> NULL,
   assignedQaId |-> NULL, submittedAt |-> NoDate, cancelledAt |-> NoDate,
   deployedAt |-> NoDate, cancelledById |-> NULL,
   cancellationReason |-> NULL]

\* ---------------------------------------------------------- ticket numbers
\* Strings of digits are sequences of digits. A ticket number
\* `TKT-${year}${month}-${sequence}` is the pair of its digit strings: prefix
\* (year and month) and sequence, the part split("-")[2] returns.
NoNumber == [prefix |-> <<>>, sequence |-> <<>>]

\* Number.prototype.toString of a number >= 0
RECURSIVE toString(_)
toString(n) == IF n < 10 THEN <<n>> ELSE Append(toString(n \div 10), n % 10)

\* String.prototype.slice(-k)
slice(str, k) == IF Len(str) <= k THEN str ELSE SubSeq(str, Len(str) - k + 1, Len(str))

\* String.prototype.padStart(targetLength, "0")
RECURSIVE padStart(_, _)
padStart(str, targetLength) ==
  IF Len(str) >= targetLength THEN str ELSE padStart(<<0>> \o str, targetLength)

\* parseInt(str, 10) of a non-empty string of digits
RECURSIVE parseInt(_)
parseInt(str) ==
  IF Len(str) = 1 THEN str[1]
  ELSE parseInt(SubSeq(str, 1, Len(str) - 1)) * 10 + str[Len(str)]

\* a < b in the order the database sorts strings by
RECURSIVE StringLess(_, _)
StringLess(a, b) ==
  IF Len(b) = 0 THEN FALSE
  ELSE IF Len(a) = 0 THEN TRUE
  ELSE IF a[1] # b[1] THEN a[1] < b[1]
  ELSE StringLess(Tail(a), Tail(b))

\* the month the first ticket was created in: getFullYear() and getMonth()
FirstDate == [year |-> 2025, month |-> 11]

\* `TKT-${year}${month}` of generateTicketNumber, without the letters TKT-
Prefix(date) ==
  slice(toString(date.year), 2) \o padStart(toString(date.month + 1), 2)

\* prisma.ticket.findFirst({ where: startsWith(prefix), orderBy: desc }): the
\* last ticket number in string order, NoNumber when there is none
lastTicket(prefix, rows) ==
  LET found == {i \in DOMAIN rows : rows[i].ticketNumber.prefix = prefix}
  IN IF found = {} THEN NoNumber
     ELSE rows[CHOOSE i \in found : \A j \in found :
                 ~StringLess(rows[i].ticketNumber.sequence,
                             rows[j].ticketNumber.sequence)].ticketNumber

\* generateTicketNumber, from the prefix it computed and the rows findFirst saw
generateTicketNumber(prefix, rows) ==
  LET last == lastTicket(prefix, rows)
      sequence == IF last = NoNumber THEN 1 ELSE parseInt(last.sequence) + 1
  IN [prefix |-> prefix, sequence |-> padStart(toString(sequence), 4)]

\* a Ticket row as inserted, and a TicketStatusHistory row with its ticket
Row(id, ticketNumber, data) ==
  [id |-> id, ticketNumber |-> ticketNumber, data |-> data]

EntryRow(ticketId, entry) == [ticketId |-> ticketId, entry |-> entry]

\* a creation handler that is not running
CIdle ==
  [pc |-> "idle", kind |-> NULL, actor |-> NULL, prefix |-> <<>>,
   ticketNumber |-> NoNumber, ticketId |-> 0]

\* the deployments: the server's SAP_API_KEY, whether the User row of the SAP
\* submitter exists, whether the schema declares Ticket.ticketNumber unique
Envs ==
  [SAP_API_KEY : {NULL, "secret"}, sapSubmitter : BOOLEAN,
   uniqueTicketNumber : BOOLEAN]

Production ==
  [SAP_API_KEY |-> "secret", sapSubmitter |-> TRUE,
   uniqueTicketNumber |-> FALSE]

\* the database after POST /api/tickets by the submitter has answered
Created ==
  /\ ticket = NewTicket("sub")
  /\ history = <<HistoryEntry(NULL, "FOR_PD_APPROVAL", "sub", "Ticket created")>>
  /\ reqs = [r \in ReqIds |-> Idle]
  /\ resp = NoResponse
  /\ clock = 1
  /\ today = FirstDate
  /\ tickets = <<Row(1, generateTicketNumber(Prefix(FirstDate), <<>>),
                     NewTicket("sub"))>>
  /\ entries = <<EntryRow(1, HistoryEntry(NULL, "FOR_PD_APPROVAL", "sub",
                                          "Ticket created"))>>
  /\ creates = [c \in ReqIds |-> CIdle]
  /\ comments = <<>>
  /\ attachments = <<>>
  /\ body = NoBody

\* concurrent requests against a database that does not fail
Init == Created /\ env = Production /\ overlaps = MaxOverlaps /\ faults = 0

\* requests served one at a time: a handler starts only after the one before
\* it has answered
SeqInit == Created /\ env = Production /\ overlaps = 0 /\ faults = 0

\* requests served one at a time by a database that may reject an insert
FaultInit == Created /\ env = Production /\ overlaps = 0 /\ faults = MaxFaults

\* ticket creation in any deployment: concurrent requests, and a database
\* that may reject a status-history insert
CreateInit ==
  Created /\ env \in Envs /\ overlaps = MaxOverlaps /\ faults = MaxFaults

\* sequences of the newest ticket of the first month, left by earlier
\* requests: the first ticket, and the last ones that fit in four digits
ExistingSequences == {1, 9998, 9999}

\* ticket creation on a table that earlier requests have filled. Of the
\* rows of the month only the newest is kept: it is the last one both in
\* string order and in numeric order, so findFirst returns what it would
\* return on the whole table
NumberInit ==
  /\ ticket = NewTicket("sub")
  /\ history = <<HistoryEntry(NULL, "FOR_PD_APPROVAL", "sub", "Ticket created")>>
  /\ reqs = [r \in ReqIds |-> Idle]
  /\ resp = NoResponse
  /\ clock = 1
  /\ today = FirstDate
  /\ \E sequence \in ExistingSequences :
       tickets = <<Row(1, [prefix |-> Prefix(FirstDate),
                           sequence |-> padStart(toString(sequence), 4)],
                       NewTicket("sub"))>>
  /\ entries = <<EntryRow(1, HistoryEntry(NULL, "FOR_PD_APPROVAL", "sub",
                                          "Ticket created"))>>
  /\ creates = [c \in ReqIds |-> CIdle]
  /\ comments = <<>>
  /\ attachments = <<>>
  /\ body = NoBody
  /\ env \in Envs
  /\ overlaps = MaxOverlaps
  /\ faults = MaxFaults

\* a handler takes the lowest free slot
FreeSlot(r) ==
  /\ reqs[r].pc = "idle"
  /\ \A q \in ReqIds : q < r => reqs[q].pc # "idle"

InFlight == {r \in ReqIds : reqs[r].pc # "idle"}

\* the handler answers at once with an error: nothing is written
Refuse(kind, code, error) ==
  /\ resp' = Response(kind, code, error)
  /\ UNCHANGED <<ticket, history, reqs, clock, overlaps, faults, created, served>>

\* the handler has loaded the ticket and passed its checks: it goes on to its
\* awaited prisma.ticket.update
Proceed(r, rec) ==
  /\ InFlight = {} \/ overlaps > 0
  /\ reqs' = [reqs EXCEPT ![r] = rec]
  /\ overlaps' = IF InFlight = {} THEN overlaps ELSE overlaps - 1
  /\ UNCHANGED <<ticket, history, resp, clock, faults, created, served>>

\* the handler returns its 200 response
Answer(r) ==
  /\ resp' = Response(reqs[r].kind, 200, NULL)
  /\ reqs' = [reqs EXCEPT ![r] = Idle]

\* request bodies
Reasons == {Undefined, "because"}
ApprovalReasons == {Undefined, "", "because"}
StatusReasons == {Undefined}
Actions == {"approve", "reject"}
BodyStatuses == {"CANCELLED", "SUBMITTED"}
DeveloperIds == {Undefined, "dev", "qa"}
QaIds == {Undefined, "", "qa", "nobody"}

generateDefaultReason(newStatus) ==
  CASE newStatus = "QA_TESTING" -> "Development completed, ready for QA testing"
    [] newStatus = "PD_TESTING" -> "QA testing completed, ready for PD testing"
    [] newStatus = "FOR_DEPLOYMENT" -> "PD testing approved, ready for deployment"
    [] newStatus = "DEPLOYED" -> "Deployed to production"
    [] OTHER -> "Status updated"

\* `data` of the handler's prisma.ticketStatusHistory.create
HistoryData(q) ==
  CASE q.kind = "approve" ->
         HistoryEntry("FOR_PD_APPROVAL", "SUBMITTED", q.actor,
           IF Not(q.reason) THEN "Approved by process owner"
           ELSE q.reason)
    [] q.kind = "reject" ->
         HistoryEntry("FOR_PD_APPROVAL", "CANCELLED", q.actor, q.reason)
    [] q.kind = "cancel" ->
         HistoryEntry("FOR_PD_APPROVAL", "CANCELLED", q.actor,
           IF Not(q.reason) THEN "Cancelled by submitter" ELSE q.reason)
    [] q.kind = "assign" ->
         HistoryEntry(q.readStatus, q.newStatus, q.actor,
           "Development started by Project Manager")
    [] q.kind = "status" ->
         HistoryEntry(q.readStatus, q.newStatus, q.actor,
           IF Not(q.reason) THEN generateDefaultReason(q.newStatus)
           ELSE q.reason)

\* HistoryCreate keeping one row per ticket: the newest entry is overwritten
HistoryCreate_Upsert(r) ==
  /\ reqs[r].pc = "history"
  /\ history' = [history EXCEPT ![Len(history)] = HistoryData(reqs[r])]
  /\ Answer(r)
  /\ UNCHANGED <<ticket, clock, overlaps, faults, created, served>>

\* the awaited prisma.ticketStatusHistory.create and the 200 response after it
HistoryCreate(r) ==
  /\ reqs[r].pc = "history"
  /\ history' = Append(history, HistoryData(reqs[r]))
  /\ Answer(r)
  /\ UNCHANGED <<ticket, clock, overlaps, faults, created, served>>

\* a rejected promise of prisma.ticketStatusHistory.create: the handler's
\* catch block answers 500, the ticket update before it stays
HistoryCreateFails(r) ==
  /\ reqs[r].pc = "history"
  /\ faults > 0
  /\ faults' = faults - 1
  /\ resp' = Response(reqs[r].kind, 500,
       CASE reqs[r].kind \in Actions -> "Failed to process approval"
         [] reqs[r].kind = "cancel" -> "Failed to update ticket"
         [] reqs[r].kind = "assign" -> "Failed to assign ticket"
         [] reqs[r].kind = "status" -> "Failed to update ticket status")
  /\ reqs' = [reqs EXCEPT ![r] = Idle]
  /\ UNCHANGED <<ticket, history, clock, overlaps, created, served>>

\* ------------------------------------------------- POST /api/approvals/[id]
getAccessDenialReason(type) ==
  IF type = "create"
  THEN "You do not have permission to create tickets. Please contact your administrator."
  ELSE "You do not have permission to approve tickets. Please contact your administrator."

\* ApprovalsBody taking a rejection without a reason
ApprovalsBody_ReasonOptional(r, u, action, reason) ==
  IF ticket.status # "FOR_PD_APPROVAL"
  THEN Refuse(action, 400, "Ticket is not pending approval")
  ELSE Proceed(r,
         [Idle EXCEPT !.pc = "update", !.kind = action, !.actor = u,
                      !.readStatus = ticket.status, !.reason = reason])

\* the handler from the parsed body on, for an approver u
ApprovalsBody(r, u, action, reason) ==
  IF ticket.status # "FOR_PD_APPROVAL"
  THEN Refuse(action, 400, "Ticket is not pending approval")
  ELSE IF action = "reject" /\ Not(reason)
  THEN Refuse(action, 400, "Rejection reason is required")
  ELSE Proceed(r,
         [Idle EXCEPT !.pc = "update", !.kind = action, !.actor = u,
                      !.readStatus = ticket.status, !.reason = reason])

\* ApprovalsPOST gating on the organisational hierarchy flags as well
ApprovalsPOST_ByHierarchy(r, u) ==
  /\ FreeSlot(r)
  /\ IF ~isTicketApprover(UserEmail[u]) /\ ~UserIsHead[u]
     THEN Refuse("approvals", 403, getAccessDenialReason("approve"))
     ELSE \E action \in Actions, reason \in ApprovalReasons :
       ApprovalsBody(r, u, action, reason)

ApprovalsPOST(r, u) ==
  /\ FreeSlot(r)
  /\ IF ~isTicketApprover(UserEmail[u])
     THEN Refuse("approvals", 403, getAccessDenialReason("approve"))
     ELSE \E action \in Actions, reason \in ApprovalReasons :
       ApprovalsBody(r, u, action, reason)

\* ApprovalsUpdate making the approver the owner of the ticket in both columns
ApprovalsUpdate_OwnerTakesOver(r) ==
  /\ reqs[r].pc = "update"
  /\ reqs[r].kind \in Actions
  /\ ticket' =
       IF reqs[r].kind = "approve"
       THEN [ticket EXCEPT !.status = "SUBMITTED",
                           !.submitterId = reqs[r].actor,
                           !.processOwnerId = reqs[r].actor,
                           !.submittedAt = clock]
       ELSE [ticket EXCEPT !.status = "CANCELLED",
                           !.processOwnerId = reqs[r].actor,
                           !.cancelledAt = clock,
                           !.cancelledById = reqs[r].actor,
                           !.cancellationReason = reqs[r].reason]
  /\ clock' = clock + 1
  /\ reqs' = [reqs EXCEPT ![r].pc = "history"]
  /\ UNCHANGED <<history, resp, overlaps, faults, created, served>>

\* ApprovalsUpdate with submittedAt left out of the approval's update data
ApprovalsUpdate_NoSubmittedAt(r) ==
  /\ reqs[r].pc = "update"
  /\ reqs[r].kind \in Actions
  /\ ticket' =
       IF reqs[r].kind = "approve"
       THEN [ticket EXCEPT !.status = "SUBMITTED",
                           !.processOwnerId = reqs[r].actor]
       ELSE [ticket EXCEPT !.status = "CANCELLED",
                           !.processOwnerId = reqs[r].actor,
                           !.cancelledAt = clock,
                           !.cancelledById = reqs[r].actor,
                           !.cancellationReason = reqs[r].reason]
  /\ clock' = clock + 1
  /\ reqs' = [reqs EXCEPT ![r].pc = "history"]
  /\ UNCHANGED <<history, resp, overlaps, faults, created, served>>

ApprovalsUpdate(r) ==
  /\ reqs[r].pc = "update"
  /\ reqs[r].kind \in Actions
  /\ ticket' =
       IF reqs[r].kind = "approve"
       THEN [ticket EXCEPT !.status = "SUBMITTED",
                           !.processOwnerId = reqs[r].actor,
                           !.submittedAt = clock]
       ELSE [ticket EXCEPT !.status = "CANCELLED",
                           !.processOwnerId = reqs[r].actor,
                           !.cancelledAt = clock,
                           !.cancelledById = reqs[r].actor,
                           !.cancellationReason = reqs[r].reason]
  /\ clock' = clock + 1
  /\ reqs' = [reqs EXCEPT ![r].pc = "history"]
  /\ UNCHANGED <<history, resp, overlaps, faults, created, served>>

ApprovalsHistory(r) ==
  /\ reqs[r].kind \in Actions
  /\ HistoryCreate(r)

\* ------------------------------------------------- PATCH /api/tickets/[id]
\* TicketPATCH without the check that the ticket awaits approval
TicketPATCH_AnyStatus(r, u) ==
  /\ FreeSlot(r)
  /\ \E bodyStatus \in BodyStatuses :
       IF bodyStatus # "CANCELLED"
       THEN Refuse("cancel", 400, "Invalid update")
       ELSE IF ticket.submitterId # u
       THEN Refuse("cancel", 403, "Only the ticket submitter can cancel")
       ELSE \E reason \in Reasons :
         Proceed(r,
           [Idle EXCEPT !.pc = "update", !.kind = "cancel", !.actor = u,
                        !.readStatus = ticket.status, !.reason = reason])

TicketPATCH(r, u) ==
  /\ FreeSlot(r)
  /\ \E bodyStatus \in BodyStatuses :
       IF bodyStatus # "CANCELLED"
       THEN Refuse("cancel", 400, "Invalid update")
       ELSE IF ticket.submitterId # u
       THEN Refuse("cancel", 403, "Only the ticket submitter can cancel")
       ELSE IF ticket.status # "FOR_PD_APPROVAL"
       THEN Refuse("cancel", 400, "Can only cancel tickets awaiting approval")
       ELSE \E reason \in Reasons :
         Proceed(r,
           [Idle EXCEPT !.pc = "update", !.kind = "cancel", !.actor = u,
                        !.readStatus = ticket.status, !.reason = reason])

TicketPATCHUpdate(r) ==
  /\ reqs[r].pc = "update"
  /\ reqs[r].kind = "cancel"
  /\ ticket' = [ticket EXCEPT
                  !.status = "CANCELLED",
                  !.cancelledAt = clock,
                  !.cancelledById = reqs[r].actor,
                  !.cancellationReason =
                     IF Not(reqs[r].reason)
                     THEN "Cancelled by submitter" ELSE reqs[r].reason]
  /\ clock' = clock + 1
  /\ reqs' = [reqs EXCEPT ![r].pc = "history"]
  /\ UNCHANGED <<history, resp, overlaps, faults, created, served>>

TicketPATCHHistory(r) ==
  /\ reqs[r].kind = "cancel"
  /\ HistoryCreate(r)

\* ---------------------------------------- POST /api/pm/tickets/[id]/assign
\* validStatuses with the tickets awaiting deployment added
validStatuses_UntilDeployed ==
  {"SUBMITTED", "DEV_IN_PROGRESS", "QA_TESTING", "PD_TESTING", "FOR_DEPLOYMENT"}

validStatuses == {"SUBMITTED", "DEV_IN_PROGRESS", "QA_TESTING", "PD_TESTING"}

\* prisma.user.findUnique and the role check of a non-empty id
HasRole(id, role) == id \in Users /\ UserTicketRole[id] = role

\* `id || null` of an id that is present in the body
OrNull(id) == IF id = "" THEN NULL ELSE id

\* AssignBody starting development as soon as a developer is assigned
AssignBody_AutoStart(r, u, developerId, qaId, startDevelopment) ==
  IF ticket.status \notin validStatuses
  THEN Refuse("assign", 400,
              "Ticket cannot be assigned in its current status")
  ELSE IF /\ developerId # Undefined
          /\ developerId # ""
          /\ ~HasRole(developerId, "DEVELOPER")
  THEN Refuse("assign", 400, "Invalid developer selected")
  ELSE IF qaId # Undefined /\ qaId # "" /\ ~HasRole(qaId, "QA")
  THEN Refuse("assign", 400, "Invalid QA selected")
  ELSE Proceed(r,
         [Idle EXCEPT
            !.pc = "update", !.kind = "assign", !.actor = u,
            !.readStatus = ticket.status,
            !.developerId = IF developerId = Undefined
                            THEN Undefined ELSE OrNull(developerId),
            !.qaId = IF qaId = Undefined
                     THEN Undefined ELSE OrNull(qaId),
            !.newStatus =
               IF /\ startDevelopment \/ ~Not(developerId)
                  /\ ticket.status = "SUBMITTED"
               THEN "DEV_IN_PROGRESS" ELSE Undefined])

\* the handler from the parsed body on, for a project manager u;
\* startDevelopment is FALSE also when the body leaves it out
\* AssignBody ignoring startDevelopment
AssignBody_NeverStarts(r, u, developerId, qaId, startDevelopment) ==
  IF ticket.status \notin validStatuses
  THEN Refuse("assign", 400,
              "Ticket cannot be assigned in its current status")
  ELSE IF /\ developerId # Undefined
          /\ developerId # ""
          /\ ~HasRole(developerId, "DEVELOPER")
  THEN Refuse("assign", 400, "Invalid developer selected")
  ELSE IF qaId # Undefined /\ qaId # "" /\ ~HasRole(qaId, "QA")
  THEN Refuse("assign", 400, "Invalid QA selected")
  ELSE Proceed(r,
         [Idle EXCEPT
            !.pc = "update", !.kind = "assign", !.actor = u,
            !.readStatus = ticket.status,
            !.developerId = IF developerId = Undefined
                            THEN Undefined ELSE OrNull(developerId),
            !.qaId = IF qaId = Undefined
                     THEN Undefined ELSE OrNull(qaId),
            !.newStatus = Undefined])

\* AssignBody storing the developer of a request whose QA is not a QA user
AssignBody_KeepsValidHalf(r, u, developerId, qaId, startDevelopment) ==
  IF ticket.status \notin validStatuses
  THEN Refuse("assign", 400,
              "Ticket cannot be assigned in its current status")
  ELSE IF /\ developerId # Undefined
          /\ developerId # ""
          /\ ~HasRole(developerId, "DEVELOPER")
  THEN Refuse("assign", 400, "Invalid developer selected")
  ELSE Proceed(r,
         [Idle EXCEPT
            !.pc = "update", !.kind = "assign", !.actor = u,
            !.readStatus = ticket.status,
            !.developerId = IF developerId = Undefined
                            THEN Undefined ELSE OrNull(developerId),
            !.qaId = IF qaId = Undefined \/ ~HasRole(qaId, "QA")
                     THEN Undefined ELSE qaId,
            !.newStatus =
               IF startDevelopment /\ ticket.status = "SUBMITTED"
               THEN "DEV_IN_PROGRESS" ELSE Undefined])

AssignBody(r, u, developerId, qaId, startDevelopment) ==
  IF ticket.status \notin validStatuses
  THEN Refuse("assign", 400,
              "Ticket cannot be assigned in its current status")
  ELSE IF /\ developerId # Undefined
          /\ developerId # ""
          /\ ~HasRole(developerId, "DEVELOPER")
  THEN Refuse("assign", 400, "Invalid developer selected")
  ELSE IF qaId # Undefined /\ qaId # "" /\ ~HasRole(qaId, "QA")
  THEN Refuse("assign", 400, "Invalid QA selected")
  ELSE Proceed(r,
         [Idle EXCEPT
            !.pc = "update", !.kind = "assign", !.actor = u,
            !.readStatus = ticket.status,
            !.developerId = IF developerId = Undefined
                            THEN Undefined ELSE OrNull(developerId),
            !.qaId = IF qaId = Undefined
                     THEN Undefined ELSE OrNull(qaId),
            !.newStatus =
               IF startDevelopment /\ ticket.status = "SUBMITTED"
               THEN "DEV_IN_PROGRESS" ELSE Undefined])

AssignPOST(r, u) ==
  /\ FreeSlot(r)
  /\ IF UserTicketRole[u] # "PROJECT_MANAGER"
     THEN Refuse("assign", 403, "Forbidden")
     ELSE \E developerId \in DeveloperIds, qaId \in QaIds,
             startDevelopment \in BOOLEAN :
       AssignBody(r, u, developerId, qaId, startDevelopment)

\* AssignData writing null for a key the body left out
AssignData_AbsentIsNull(t, q) ==
  [t EXCEPT
     !.assignedDeveloperId =
        IF q.developerId = Undefined THEN NULL ELSE q.developerId,
     !.assignedQaId = IF q.qaId = Undefined THEN NULL ELSE q.qaId,
     !.status = IF q.newStatus = Undefined THEN @ ELSE q.newStatus]

\* prisma.ticket.update({ data: updateData }): only the keys present change
AssignData(t, q) ==
  [t EXCEPT
     !.assignedDeveloperId =
        IF q.developerId = Undefined THEN @ ELSE q.developerId,
     !.assignedQaId = IF q.qaId = Undefined THEN @ ELSE q.qaId,
     !.status = IF q.newStatus = Undefined THEN @ ELSE q.newStatus]

AssignUpdate(r) ==
  /\ reqs[r].pc = "update"
  /\ reqs[r].kind = "assign"
  /\ ticket' = AssignData(ticket, reqs[r])
  /\ IF reqs[r].newStatus # Undefined
     THEN /\ reqs' = [reqs EXCEPT ![r].pc = "history"]
          /\ UNCHANGED resp
     ELSE Answer(r)
  /\ UNCHANGED <<history, clock, overlaps, faults, created, served>>

AssignHistory(r) ==
  /\ reqs[r].kind = "assign"
  /\ HistoryCreate(r)

\* --------------------------------------------- POST /api/tickets/[id]/status
updateStatusSchema == {"QA_TESTING", "PD_TESTING", "FOR_DEPLOYMENT", "DEPLOYED"}

NewStatuses == updateStatusSchema \cup {"SUBMITTED"}

Valid == [valid |-> TRUE, error |-> NULL, status |-> 200]

Invalid(error, status) == [valid |-> FALSE, error |-> error, status |-> status]

\* validateStatusTransition without the check that a QA tester is assigned
validateStatusTransition_QaUnchecked(currentStatus, newStatus, u, t) ==
  IF currentStatus = "DEV_IN_PROGRESS" /\ newStatus = "QA_TESTING"
  THEN IF /\ t.assignedDeveloperId # u
               /\ UserTicketRole[u] # "PROJECT_MANAGER"
       THEN Invalid("Only the assigned developer or project manager can move to QA Testing",
                    403)
       ELSE Valid
  ELSE IF currentStatus = "QA_TESTING" /\ newStatus = "PD_TESTING"
  THEN IF t.assignedQaId # u /\ UserTicketRole[u] # "PROJECT_MANAGER"
       THEN Invalid("Only the assigned QA or project manager can move to PD Testing",
                    403)
       ELSE Valid
  ELSE IF currentStatus = "PD_TESTING" /\ newStatus = "FOR_DEPLOYMENT"
  THEN IF /\ ~isTicketApprover(UserEmail[u])
          /\ ~UserIsHead[u]
          /\ UserTicketRole[u] # "PROJECT_MANAGER"
       THEN Invalid("Only approvers, process owners, or project managers can approve for deployment",
                    403)
       ELSE Valid
  ELSE IF currentStatus = "FOR_DEPLOYMENT" /\ newStatus = "DEPLOYED"
  THEN IF UserTicketRole[u] # "PROJECT_MANAGER"
       THEN Invalid("Only project managers can mark tickets as deployed", 403)
       ELSE Valid
  ELSE Invalid("Invalid status transition", 400)

\* validateStatusTransition letting every user of role QA move to PD testing
validateStatusTransition_AnyQa(currentStatus, newStatus, u, t) ==
  IF currentStatus = "DEV_IN_PROGRESS" /\ newStatus = "QA_TESTING"
  THEN IF t.assignedQaId = NULL
       THEN Invalid("A QA tester must be assigned before moving to QA Testing",
                    400)
       ELSE IF /\ t.assignedDeveloperId # u
               /\ UserTicketRole[u] # "PROJECT_MANAGER"
       THEN Invalid("Only the assigned developer or project manager can move to QA Testing",
                    403)
       ELSE Valid
  ELSE IF currentStatus = "QA_TESTING" /\ newStatus = "PD_TESTING"
  THEN IF UserTicketRole[u] # "QA" /\ UserTicketRole[u] # "PROJECT_MANAGER"
       THEN Invalid("Only the assigned QA or project manager can move to PD Testing",
                    403)
       ELSE Valid
  ELSE IF currentStatus = "PD_TESTING" /\ newStatus = "FOR_DEPLOYMENT"
  THEN IF /\ ~isTicketApprover(UserEmail[u])
          /\ ~UserIsHead[u]
          /\ UserTicketRole[u] # "PROJECT_MANAGER"
       THEN Invalid("Only approvers, process owners, or project managers can approve for deployment",
                    403)
       ELSE Valid
  ELSE IF currentStatus = "FOR_DEPLOYMENT" /\ newStatus = "DEPLOYED"
  THEN IF UserTicketRole[u] # "PROJECT_MANAGER"
       THEN Invalid("Only project managers can mark tickets as deployed", 403)
       ELSE Valid
  ELSE Invalid("Invalid status transition", 400)

\* validateStatusTransition ignoring the department/office head and group director flags
validateStatusTransition_NoHeads(currentStatus, newStatus, u, t) ==
  IF currentStatus = "DEV_IN_PROGRESS" /\ newStatus = "QA_TESTING"
  THEN IF t.assignedQaId = NULL
       THEN Invalid("A QA tester must be assigned before moving to QA Testing",
                    400)
       ELSE IF /\ t.assignedDeveloperId # u
               /\ UserTicketRole[u] # "PROJECT_MANAGER"
       THEN Invalid("Only the assigned developer or project manager can move to QA Testing",
                    403)
       ELSE Valid
  ELSE IF currentStatus = "QA_TESTING" /\ newStatus = "PD_TESTING"
  THEN IF t.assignedQaId # u /\ UserTicketRole[u] # "PROJECT_MANAGER"
       THEN Invalid("Only the assigned QA or project manager can move to PD Testing",
                    403)
       ELSE Valid
  ELSE IF currentStatus = "PD_TESTING" /\ newStatus = "FOR_DEPLOYMENT"
  THEN IF /\ ~isTicketApprover(UserEmail[u])
          /\ UserTicketRole[u] # "PROJECT_MANAGER"
       THEN Invalid("Only approvers, process owners, or project managers can approve for deployment",
                    403)
       ELSE Valid
  ELSE IF currentStatus = "FOR_DEPLOYMENT" /\ newStatus = "DEPLOYED"
  THEN IF UserTicketRole[u] # "PROJECT_MANAGER"
       THEN Invalid("Only project managers can mark tickets as deployed", 403)
       ELSE Valid
  ELSE Invalid("Invalid status transition", 400)

\* validateStatusTransition letting approvers and heads mark a ticket deployed
validateStatusTransition_ApproversDeploy(currentStatus, newStatus, u, t) ==
  IF currentStatus = "DEV_IN_PROGRESS" /\ newStatus = "QA_TESTING"
  THEN IF t.assignedQaId = NULL
       THEN Invalid("A QA tester must be assigned before moving to QA Testing",
                    400)
       ELSE IF /\ t.assignedDeveloperId # u
               /\ UserTicketRole[u] # "PROJECT_MANAGER"
       THEN Invalid("Only the assigned developer or project manager can move to QA Testing",
                    403)
       ELSE Valid
  ELSE IF currentStatus = "QA_TESTING" /\ newStatus = "PD_TESTING"
  THEN IF t.assignedQaId # u /\ UserTicketRole[u] # "PROJECT_MANAGER"
       THEN Invalid("Only the assigned QA or project manager can move to PD Testing",
                    403)
       ELSE Valid
  ELSE IF currentStatus = "PD_TESTING" /\ newStatus = "FOR_DEPLOYMENT"
  THEN IF /\ ~isTicketApprover(UserEmail[u])
          /\ ~UserIsHead[u]
          /\ UserTicketRole[u] # "PROJECT_MANAGER"
       THEN Invalid("Only approvers, process owners, or project managers can approve for deployment",
                    403)
       ELSE Valid
  ELSE IF currentStatus = "FOR_DEPLOYMENT" /\ newStatus = "DEPLOYED"
  THEN IF /\ ~isTicketApprover(UserEmail[u])
          /\ ~UserIsHead[u]
          /\ UserTicketRole[u] # "PROJECT_MANAGER"
       THEN Invalid("Only project managers can mark tickets as deployed", 403)
       ELSE Valid
  ELSE Invalid("Invalid status transition", 400)

validateStatusTransition(currentStatus, newStatus, u, t) ==
  IF currentStatus = "DEV_IN_PROGRESS" /\ newStatus = "QA_TESTING"
  THEN IF t.assignedQaId = NULL
       THEN Invalid("A QA tester must be assigned before moving to QA Testing",
                    400)
       ELSE IF /\ t.assignedDeveloperId # u
               /\ UserTicketRole[u] # "PROJECT_MANAGER"
       THEN Invalid("Only the assigned developer or project manager can move to QA Testing",
                    403)
       ELSE Valid
  ELSE IF currentStatus = "QA_TESTING" /\ newStatus = "PD_TESTING"
  THEN IF t.assignedQaId # u /\ UserTicketRole[u] # "PROJECT_MANAGER"
       THEN Invalid("Only the assigned QA or project manager can move to PD Testing",
                    403)
       ELSE Valid
  ELSE IF currentStatus = "PD_TESTING" /\ newStatus = "FOR_DEPLOYMENT"
  THEN IF /\ ~isTicketApprover(UserEmail[u])
          /\ ~UserIsHead[u]
          /\ UserTicketRole[u] # "PROJECT_MANAGER"
       THEN Invalid("Only approvers, process owners, or project managers can approve for deployment",
                    403)
       ELSE Valid
  ELSE IF currentStatus = "FOR_DEPLOYMENT" /\ newStatus = "DEPLOYED"
  THEN IF UserTicketRole[u] # "PROJECT_MANAGER"
       THEN Invalid("Only project managers can mark tickets as deployed", 403)
       ELSE Valid
  ELSE Invalid("Invalid status transition", 400)

\* the handler for a body that names newStatus
StatusBody(r, u, newStatus) ==
  IF newStatus \notin updateStatusSchema
  THEN Refuse("status", 400, "Validation failed")
  ELSE LET validationResult ==
             validateStatusTransition(ticket.status, newStatus, u, ticket)
       IN IF ~validationResult.valid
          THEN Refuse("status", validationResult.status,
                      validationResult.error)
          ELSE \E reason \in StatusReasons :
            Proceed(r,
              [Idle EXCEPT !.pc = "update", !.kind = "status",
                           !.actor = u, !.readStatus = ticket.status,
                           !.newStatus = newStatus, !.reason = reason])

StatusPOST(r, u) ==
  /\ FreeSlot(r)
  /\ \E newStatus \in NewStatuses : StatusBody(r, u, newStatus)

StatusUpdate(r) ==
  /\ reqs[r].pc = "update"
  /\ reqs[r].kind = "status"
  /\ IF reqs[r].newStatus = "DEPLOYED"
     THEN /\ ticket' = [ticket EXCEPT !.status = reqs[r].newStatus,
                                      !.deployedAt = clock]
          /\ clock' = clock + 1
     ELSE /\ ticket' = [ticket EXCEPT !.status = reqs[r].newStatus]
          /\ UNCHANGED clock
  /\ reqs' = [reqs EXCEPT ![r].pc = "history"]
  /\ UNCHANGED <<history, resp, overlaps, faults, created, served>>

StatusHistory(r) ==
  /\ reqs[r].kind = "status"
  /\ HistoryCreate(r)

\* ------------------------------------------------------ POST /api/tickets
ALLOWED_TICKET_CREATORS ==
  {"torie.gequillana@projectduo.com.ph", "camila.sosito@projectduo.com.ph",
   "thess.bunyad@projectduo.com.ph", "meann.tabilog@projectduo.com.ph",
   "vida.gerado@projectduo.com.ph", "jerome.staana@projectduo.com.ph",
   "karen.vengco@projectduo.com.ph", "wilda.constantino@projectduo.com.ph",
   "jen.ocenar@projectduo.com.ph", "tin.lapuz@projectduo.com.ph",
   "mavi.villanueva@projectduo.com.ph", "arlene.cabato@projectduo.com.ph",
   "nancy.marcelo@projectduo.com.ph", "elvin.olano@projectduo.com.ph",
   "julie.mendoza@projectduo.com.ph", "von.mauleon@projectduo.com.ph",
   "av.mauleon@gmail.com"}

\* canCreateTickets comparing the e-mail as the session holds it
canCreateTickets_CaseSensitive(email) ==
  IF email = NULL THEN FALSE ELSE email \in ALLOWED_TICKET_CREATORS

canCreateTickets(email) ==
  IF email = NULL THEN FALSE ELSE toLowerCase(email) \in ALLOWED_TICKET_CREATORS

\* exported by access-control.ts; no route calls it
shouldBypassApproval(email) ==
  IF email = NULL THEN FALSE ELSE toLowerCase(email) \in TICKET_APPROVERS

CreatesInFlight == {c \in ReqIds : creates[c].pc # "idle"}

\* a creation handler takes the lowest free slot
FreeCreate(c) ==
  /\ creates[c].pc = "idle"
  /\ \A q \in ReqIds : q < c => creates[q].pc # "idle"

\* the handler has passed its checks and computed the prefix from today's
\* date: it goes on to the awaited findFirst of generateTicketNumber
Begin(c, kind, actor) ==
  /\ CreatesInFlight = {} \/ overlaps > 0
  /\ Len(tickets) + Cardinality(CreatesInFlight) < MaxTickets
  /\ creates' = [creates EXCEPT ![c] =
                   [CIdle EXCEPT !.pc = "number", !.kind = kind,
                                 !.actor = actor, !.prefix = Prefix(today)]]
  /\ overlaps' = IF CreatesInFlight = {} THEN overlaps ELSE overlaps - 1
  /\ UNCHANGED <<ticket, history, reqs, resp, clock, faults, tickets,
                 entries, today, env, served>>

\* the handler once the session is known to be an allowed creator; valid:
\* createTicketSchema accepts the body
TicketsBody(c, u, valid) ==
  IF ~valid
  THEN Refuse("create", 400, "Validation failed")
  ELSE Begin(c, "create", u)

TicketsPOST(c, u) ==
  /\ FreeCreate(c)
  /\ IF ~canCreateTickets(UserEmail[u])
     THEN Refuse("create", 403, getAccessDenialReason("create"))
     ELSE \E valid \in BOOLEAN : TicketsBody(c, u, valid)

\* ------------------------------------------- POST /api/external/sap/tickets
SAP_SUBMITTER_ID == "cmg07ttto0002pb0k2i3w9qcu"

\* values of the x-api-key header; NULL: the header is absent
ApiKeys == {NULL, "", "secret", "wrong"}

\* validateApiKey without the check that both keys are present
validateApiKey_NoPresenceCheck(apiKey) == apiKey = env.SAP_API_KEY

validateApiKey(apiKey) ==
  IF Not(apiKey) \/ Not(env.SAP_API_KEY)
  THEN FALSE
  ELSE apiKey = env.SAP_API_KEY

\* valid: sapTicketSchema accepts the body
SapBody(c, apiKey, valid) ==
  IF ~validateApiKey(apiKey)
  THEN Refuse("sap", 401, "Unauthorized - Invalid or missing API key")
  ELSE IF ~valid
  THEN Refuse("sap", 400, "Validation failed")
  ELSE IF ~env.sapSubmitter
  THEN Refuse("sap", 404, "Configuration error - Submitter user not found")
  ELSE Begin(c, "sap", SAP_SUBMITTER_ID)

SapPOST(c) ==
  /\ FreeCreate(c)
  /\ \E apiKey \in ApiKeys, valid \in BOOLEAN : SapBody(c, apiKey, valid)

\* ------------------------------------------- the steps of both creation routes
\* generateTicketNumber's findFirst returns; the number is computed
GenerateTicketNumber(c) ==
  /\ creates[c].pc = "number"
  /\ creates' = [creates EXCEPT
                   ![c].pc = "create",
                   ![c].ticketNumber =
                      generateTicketNumber(creates[c].prefix, tickets)]
  /\ UNCHANGED <<ticket, history, reqs, resp, clock, overlaps, faults,
                 tickets, entries, today, env, served>>

\* CreateData sending SAP tickets through approval like any other ticket
CreateData_NoBypass(q) ==
  IF q.kind = "sap" THEN NewTicket(SAP_SUBMITTER_ID) ELSE NewTicket(q.actor)

\* the `data` of prisma.ticket.create
CreateData(q) ==
  IF q.kind = "sap"
  THEN [NewTicket(SAP_SUBMITTER_ID) EXCEPT !.status = "SUBMITTED",
                                            !.submittedAt = clock]
  ELSE NewTicket(q.actor)

Taken(ticketNumber) ==
  \E i \in DOMAIN tickets : tickets[i].ticketNumber = ticketNumber

\* prisma.ticket.create inserts the row
TicketCreate(c) ==
  /\ creates[c].pc = "create"
  /\ ~(env.uniqueTicketNumber /\ Taken(creates[c].ticketNumber))
  /\ tickets' = Append(tickets, Row(Len(tickets) + 1, creates[c].ticketNumber,
                                     CreateData(creates[c])))
  /\ clock' = IF creates[c].kind = "sap" THEN clock + 1 ELSE clock
  /\ creates' = [creates EXCEPT ![c].pc = "history",
                                ![c].ticketId = Len(tickets) + 1]
  /\ UNCHANGED <<ticket, history, reqs, resp, overlaps, faults, entries,
                 today, env, served>>

\* prisma.ticket.create throws on a schema that declares ticketNumber unique;
\* the catch block answers 500
TicketCreateRejected(c) ==
  /\ creates[c].pc = "create"
  /\ env.uniqueTicketNumber /\ Taken(creates[c].ticketNumber)
  /\ resp' = Response(creates[c].kind, 500, "Failed to create ticket")
  /\ creates' = [creates EXCEPT ![c] = CIdle]
  /\ UNCHANGED <<ticket, history, reqs, clock, overlaps, faults, tickets,
                 entries, today, env, served>>

\* the `data` of the creation's prisma.ticketStatusHistory.create
CreateHistoryData(q) ==
  IF q.kind = "sap"
  THEN HistoryEntry(NULL, "SUBMITTED", SAP_SUBMITTER_ID,
                    "Auto-created by SAP integration")
  ELSE HistoryEntry(NULL, "FOR_PD_APPROVAL", q.actor, "Ticket created")

\* prisma.ticketStatusHistory.create inserts the row; the handler answers 200
TicketCreateHistory(c) ==
  /\ creates[c].pc = "history"
  /\ entries' = Append(entries, EntryRow(creates[c].ticketId,
                                         CreateHistoryData(creates[c])))
  /\ resp' = Response(creates[c].kind, 200, NULL)
  /\ creates' = [creates EXCEPT ![c] = CIdle]
  /\ UNCHANGED <<ticket, history, reqs, clock, overlaps, faults, tickets,
                 today, env, served>>

\* prisma.ticketStatusHistory.create throws; the catch block answers 500
TicketCreateHistoryFails(c) ==
  /\ creates[c].pc = "history"
  /\ faults > 0
  /\ faults' = faults - 1
  /\ resp' = Response(creates[c].kind, 500, "Failed to create ticket")
  /\ creates' = [creates EXCEPT ![c] = CIdle]
  /\ UNCHANGED <<ticket, history, reqs, clock, overlaps, tickets, entries,
                 today, env, served>>

\* months since the first ticket was created
MonthsPassed ==
  (today.year - FirstDate.year) * 12 + today.month - FirstDate.month

\* the calendar moves on to the next month
MonthEnds ==
  /\ MonthsPassed < MaxMonths
  /\ today' = IF today.month = 11
              THEN [year |-> today.year + 1, month |-> 0]
              ELSE [today EXCEPT !.month = @ + 1]
  /\ UNCHANGED <<ticket, history, reqs, resp, clock, overlaps, faults,
                 tickets, entries, creates, env, served>>

\* ------------------------------ GET /api/tickets/[id], comments, attachments
\* the id of the ticket, and the ids a request may name: an id that is in no
\* Ticket row among them
TicketId == "ticket"

TicketIds == {TicketId, "nothing"}

\* `some || ... || session.user.ticketRole === "PROJECT_MANAGER"` of GET
canView(u, t) ==
  \/ t.submitterId = u
  \/ t.processOwnerId = u
  \/ t.assignedDeveloperId = u
  \/ t.assignedQaId = u
  \/ UserIsHead[u]
  \/ UserTicketRole[u] = "PROJECT_MANAGER"

\* canComment of POST comments
canComment(u, t) ==
  \/ t.submitterId = u
  \/ t.processOwnerId = u
  \/ t.assignedDeveloperId = u
  \/ t.assignedQaId = u
  \/ UserIsHead[u]

\* canUpload of POST attachments
canUpload(u, t) ==
  \/ t.submitterId = u
  \/ t.processOwnerId = u
  \/ t.assignedDeveloperId = u
  \/ t.assignedQaId = u
  \/ UserIsHead[u]

isInternalStaff(u, t) ==
  UserIsHead[u] \/ t.assignedDeveloperId = u \/ t.assignedQaId = u

\* orderBy: { createdAt: "desc" } of rows kept in creation order
RECURSIVE Desc(_)
Desc(rows) ==
  IF rows = <<>> THEN <<>> ELSE Append(Desc(Tail(rows)), Head(rows))

\* a response of the three routes that is not the ticket
Deny(kind, code, error) ==
  /\ resp' = Response(kind, code, error)
  /\ body' = NoBody
  /\ UNCHANGED <<ticket, history, reqs, clock, overlaps, faults, created,
                 comments, attachments>>

\* TicketGET answering an id that is in no row with an empty history
TicketGET_EmptyWhenMissing(u, id) ==
  IF id # TicketId
  THEN /\ resp' = Response("view", 200, NULL)
       /\ body' = NoBody
       /\ UNCHANGED <<ticket, history, reqs, clock, overlaps, faults, created,
                      comments, attachments>>
  ELSE IF ~canView(u, ticket)
  THEN Deny("view", 403, "Unauthorized")
  ELSE /\ resp' = Response("view", 200, NULL)
       /\ body' = [statusHistory |-> Desc(history), found |-> TRUE]
       /\ UNCHANGED <<ticket, history, reqs, clock, overlaps, faults, created,
                      comments, attachments>>

\* GET /api/tickets/[id]: the ticket with its status history, newest first
TicketGET(u, id) ==
  IF id # TicketId
  THEN Deny("view", 404, "Ticket not found")
  ELSE IF ~canView(u, ticket)
  THEN Deny("view", 403, "Unauthorized")
  ELSE /\ resp' = Response("view", 200, NULL)
       /\ body' = [statusHistory |-> Desc(history), found |-> TRUE]
       /\ UNCHANGED <<ticket, history, reqs, clock, overlaps, faults, created,
                      comments, attachments>>

Posts == Len(comments) + Len(attachments)

\* POST /api/tickets/[id]/comments; valid: createCommentSchema accepts the body
CommentsPOST(u, id) ==
  /\ Posts < MaxPosts
  /\ \E valid \in BOOLEAN, isInternal \in BOOLEAN :
       IF ~valid
       THEN Deny("comment", 400, "Validation failed")
       ELSE IF id # TicketId
       THEN Deny("comment", 404, "Ticket not found")
       ELSE IF ~canComment(u, ticket)
       THEN Deny("comment", 403, "Unauthorized")
       ELSE /\ comments' = Append(comments,
                 [userId |-> u,
                  isInternal |-> isInternal /\ isInternalStaff(u, ticket)])
            /\ resp' = Response("comment", 200, NULL)
            /\ body' = NoBody
            /\ UNCHANGED <<ticket, history, reqs, clock, overlaps, faults,
                           created, attachments>>

\* POST /api/tickets/[id]/attachments; file: the form holds a file of an
\* allowed type and size
AttachmentsPOST(u, id) ==
  /\ Posts < MaxPosts
  /\ \E file \in BOOLEAN :
       IF id # TicketId
       THEN Deny("upload", 404, "Ticket not found")
       ELSE IF ~canUpload(u, ticket)
       THEN Deny("upload", 403, "Unauthorized")
       ELSE IF ~file
       THEN Deny("upload", 400, "No file provided")
       ELSE /\ attachments' = Append(attachments, [uploadedById |-> u])
            /\ resp' = Response("upload", 200, NULL)
            /\ body' = NoBody
            /\ UNCHANGED <<ticket, history, reqs, clock, overlaps, faults,
                           created, comments>>

\* the approved ticket, and the tickets the project manager's assign requests
\* make of it
Approved ==
  [NewTicket("sub") EXCEPT !.status = "SUBMITTED", !.processOwnerId = "apr",
                           !.submittedAt = 1]

ServedTickets ==
  {[ticket |-> NewTicket("sub"),
    history |-> <<HistoryEntry(NULL, "FOR_PD_APPROVAL", "sub", "Ticket created")>>]}
  \cup
  {[ticket |-> AssignData(Approved, q),
    history |->
      <<HistoryEntry(NULL, "FOR_PD_APPROVAL", "sub", "Ticket created"),
        HistoryEntry("FOR_PD_APPROVAL", "SUBMITTED", "apr",
                     "Approved by process owner")>>
      \o IF q.newStatus = Undefined THEN <<>>
         ELSE <<HistoryEntry("SUBMITTED", "DEV_IN_PROGRESS", "pm",
                             "Development started by Project Manager")>>] :
   q \in [developerId : {Undefined, "dev"}, qaId : {Undefined, "qa"},
          newStatus : {Undefined, "DEV_IN_PROGRESS"}]}

\* the three routes serving a ticket that earlier requests left in the database
ViewInit ==
  /\ \E row \in ServedTickets :
       /\ ticket = row.ticket
       /\ history = row.history
       /\ clock = IF row.ticket.submittedAt = NoDate THEN 1 ELSE 2
  /\ reqs = [r \in ReqIds |-> Idle]
  /\ resp = NoResponse
  /\ today = FirstDate
  /\ tickets = <<Row(1, generateTicketNumber(Prefix(FirstDate), <<>>),
                     NewTicket("sub"))>>
  /\ entries = <<EntryRow(1, HistoryEntry(NULL, "FOR_PD_APPROVAL", "sub",
                                          "Ticket created"))>>
  /\ creates = [c \in ReqIds |-> CIdle]
  /\ comments = <<>>
  /\ attachments = <<>>
  /\ body = NoBody
  /\ env = Production
  /\ overlaps = 0
  /\ faults = 0

\* ------------------------------------------------------ lib/ticket-filters.ts
\* the enum TicketRole
TicketRole == {"NORMAL", "DEVELOPER", "QA", "PROJECT_MANAGER"}

\* a Prisma filter on one column: `column: value` is equals, `{ in: [...] }`
Equals(value) == [equals |-> value]

In(values) == [in |-> values]

\* buildUserTicketsWhereClause: the Prisma.TicketWhereInput it returns
buildUserTicketsWhereClause(userId, ticketRole) ==
  IF ticketRole = "NORMAL"
  THEN [submitterId |-> Equals(userId)]
  ELSE IF ticketRole = "DEVELOPER"
  THEN [OR |-> << [submitterId |-> Equals(userId)],
                  [assignedDeveloperId |-> Equals(userId),
                   status |-> In({"DEV_IN_PROGRESS", "QA_TESTING",
                                  "PD_TESTING", "FOR_DEPLOYMENT"})] >>]
  ELSE IF ticketRole = "QA"
  THEN [OR |-> << [submitterId |-> Equals(userId)],
                  [assignedQaId |-> Equals(userId),
                   status |-> In({"QA_TESTING", "PD_TESTING",
                                  "FOR_DEPLOYMENT", "DEPLOYED"})] >>]
  ELSE IF ticketRole = "PROJECT_MANAGER"
  THEN [OR |-> << [submitterId |-> Equals(userId)],
                  [processOwnerId |-> Equals(userId),
                   status |-> Equals("FOR_PD_APPROVAL")] >>]
  ELSE [submitterId |-> Equals(userId)]

\* whether a Ticket row satisfies a where clause: every key of the clause
\* holds of the row, and a key OR holds when one of its clauses does
RECURSIVE Satisfies(_, _)
Satisfies(row, where) ==
  \A key \in DOMAIN where :
    IF key = "OR"
    THEN \E i \in DOMAIN where.OR : Satisfies(row, where.OR[i])
    ELSE IF "in" \in DOMAIN where[key]
    THEN row[key] \in where[key].in
    ELSE row[key] = where[key].equals

\* getRoleStatusFilter giving QA the statuses of a developer
getRoleStatusFilter_QaAsDeveloper(ticketRole) ==
  IF ticketRole \in {"DEVELOPER", "QA"}
  THEN {"DEV_IN_PROGRESS", "QA_TESTING", "PD_TESTING", "FOR_DEPLOYMENT"}
  ELSE IF ticketRole = "PROJECT_MANAGER"
  THEN {"FOR_PD_APPROVAL"}
  ELSE {}

getRoleStatusFilter(ticketRole) ==
  IF ticketRole = "DEVELOPER"
  THEN {"DEV_IN_PROGRESS", "QA_TESTING", "PD_TESTING", "FOR_DEPLOYMENT"}
  ELSE IF ticketRole = "QA"
  THEN {"QA_TESTING", "PD_TESTING", "FOR_DEPLOYMENT", "DEPLOYED"}
  ELSE IF ticketRole = "PROJECT_MANAGER"
  THEN {"FOR_PD_APPROVAL"}
  ELSE {}

canUserViewTicket(t, userId, ticketRole) ==
  IF t.submitterId = userId
  THEN TRUE
  ELSE IF ticketRole = "DEVELOPER" /\ t.assignedDeveloperId = userId
  THEN t.status \in getRoleStatusFilter("DEVELOPER")
  ELSE IF ticketRole = "QA" /\ t.assignedQaId = userId
  THEN t.status \in getRoleStatusFilter("QA")
  ELSE IF /\ ticketRole = "PROJECT_MANAGER"
          /\ t.processOwnerId = userId
          /\ t.status = "FOR_PD_APPROVAL"
  THEN TRUE
  ELSE FALSE

\* what a call answered: the function, its arguments and its result
Answered(function, userId, ticketRole, result) ==
  [function |-> function, userId |-> userId, ticketRole |-> ticketRole,
   result |-> result]

\* GET /api/tickets with no search and no further filter: findMany with the
\* where clause of the session's user; result: the ticket is listed
TicketsGET(userId, ticketRole) ==
  /\ resp' = Response("list", 200, NULL)
  /\ body' = Answered("buildUserTicketsWhereClause", userId, ticketRole,
               Satisfies(ticket,
                         buildUserTicketsWhereClause(userId, ticketRole)))
  /\ UNCHANGED <<ticket, history, reqs, clock, overlaps, faults, created,
                 comments, attachments>>

\* a call of canUserViewTicket on the ticket
CanUserViewTicket(userId, ticketRole) ==
  /\ resp' = NoResponse
  /\ body' = Answered("canUserViewTicket", userId, ticketRole,
                      canUserViewTicket(ticket, userId, ticketRole))
  /\ UNCHANGED <<ticket, history, reqs, clock, overlaps, faults, created,
                 comments, attachments>>

\* the Ticket rows the two functions are given: any submitter, assignees,
\* process owner and status
FilterTickets ==
  {[NewTicket(submitterId) EXCEPT
      !.assignedDeveloperId = assignedDeveloperId,
      !.assignedQaId = assignedQaId,
      !.processOwnerId = processOwnerId,
      !.status = status] :
     submitterId \in {"sub", "dev"},
     assignedDeveloperId \in {NULL, "dev"},
     assignedQaId \in {NULL, "qa", "dev"},
     processOwnerId \in {NULL, "apr", "dev"},
     status \in TicketStatus}

FilterInit ==
  /\ ticket \in FilterTickets
  /\ history = <<>>
  /\ reqs = [r \in ReqIds |-> Idle]
  /\ resp = NoResponse
  /\ clock = 1
  /\ today = FirstDate
  /\ tickets = <<>>
  /\ entries = <<>>
  /\ creates = [c \in ReqIds |-> CIdle]
  /\ comments = <<>>
  /\ attachments = <<>>
  /\ body = NoBody
  /\ env = Production
  /\ overlaps = 0
  /\ faults = 0

\* ------------------------------------------------------------ specifications
Next ==
  \/ \E r \in ReqIds, u \in Users : ApprovalsPOST(r, u)
  \/ \E r \in ReqIds : ApprovalsUpdate(r)
  \/ \E r \in ReqIds : ApprovalsHistory(r)
  \/ \E r \in ReqIds, u \in Users : TicketPATCH(r, u)
  \/ \E r \in ReqIds : TicketPATCHUpdate(r)
  \/ \E r \in ReqIds : TicketPATCHHistory(r)
  \/ \E r \in ReqIds, u \in Users : AssignPOST(r, u)
  \/ \E r \in ReqIds : AssignUpdate(r)
  \/ \E r \in ReqIds : AssignHistory(r)
  \/ \E r \in ReqIds, u \in Users : StatusPOST(r, u)
  \/ \E r \in ReqIds : StatusUpdate(r)
  \/ \E r \in ReqIds : StatusHistory(r)

FaultNext ==
  \/ Next
  \/ \E r \in ReqIds : HistoryCreateFails(r)

CreateNext ==
  \/ \E c \in ReqIds, u \in Users : TicketsPOST(c, u)
  \/ \E c \in ReqIds : SapPOST(c)
  \/ \E c \in ReqIds : GenerateTicketNumber(c)
  \/ \E c \in ReqIds : TicketCreate(c)
  \/ \E c \in ReqIds : TicketCreateRejected(c)
  \/ \E c \in ReqIds : TicketCreateHistory(c)
  \/ \E c \in ReqIds : TicketCreateHistoryFails(c)
  \/ MonthEnds

ViewNext ==
  \/ \E u \in Users, id \in TicketIds : TicketGET(u, id)
  \/ \E u \in Users, id \in TicketIds : CommentsPOST(u, id)
  \/ \E u \in Users, id \in TicketIds : AttachmentsPOST(u, id)

FilterNext ==
  \/ \E userId \in Users, ticketRole \in TicketRole :
       TicketsGET(userId, ticketRole)
  \/ \E userId \in Users, ticketRole \in TicketRole :
       CanUserViewTicket(userId, ticketRole)

\* a request is accepted that will write a new status: approve, reject,
\* cancel, assign with startDevelopment on a SUBMITTED ticket, status update
Advance ==
  \E r \in ReqIds, u \in Users :
    /\ \/ ApprovalsPOST(r, u)
       \/ TicketPATCH(r, u)
       \/ AssignPOST(r, u)
       \/ StatusPOST(r, u)
    /\ reqs'[r].pc = "update"
    /\ \/ reqs'[r].kind \in Actions \cup {"cancel"}
       \/ reqs'[r].newStatus # Undefined

\* a project manager's assign request naming a QA user is accepted for a
\* ticket in development that has no QA
AssignQa ==
  \E r \in ReqIds, u \in Users :
    /\ ticket.status = "DEV_IN_PROGRESS"
    /\ ticket.assignedQaId = NULL
    /\ AssignPOST(r, u)
    /\ reqs'[r].pc = "update"
    /\ reqs'[r].qaId # Undefined
    /\ reqs'[r].qaId # NULL

\* a handler that was accepted goes on: its awaited update or history insert
\* returns
Continue ==
  \E r \in ReqIds :
    \/ ApprovalsUpdate(r) \/ ApprovalsHistory(r)
    \/ TicketPATCHUpdate(r) \/ TicketPATCHHistory(r)
    \/ AssignUpdate(r) \/ AssignHistory(r)
    \/ StatusUpdate(r) \/ StatusHistory(r)

Spec == Init /\ [][Next]_vars

SeqSpec == SeqInit /\ [][Next]_vars

FaultSpec == FaultInit /\ [][FaultNext]_vars

CreateSpec == CreateInit /\ [][CreateNext]_vars

ViewSpec == ViewInit /\ [][ViewNext]_vars

NumberSpec == NumberInit /\ [][CreateNext]_vars

FilterSpec == FilterInit /\ [][FilterNext]_vars

\* requests served one at a time, by handlers whose awaited calls return and
\* for actors who cooperate: a request that advances the ticket, and the
\* assignment of a missing QA, are sent again and again until accepted
LiveSpec ==
  /\ SeqInit
  /\ [][Next]_vars
  /\ WF_vars(Continue)
  /\ SF_vars(Advance)
  /\ SF_vars(AssignQa)

\* --------------------------------------------------------------- properties
\* C1: once the stored status is CANCELLED or DEPLOYED no step changes it.
C1_TerminalAbsorbing ==
  [][ticket.status \in TerminalStatus => ticket'.status = ticket.status]_vars

\* C2: the history entry a handler appends for its update names as fromStatus
\* the status stored right before that update and as toStatus the status
\* stored right after it.
C2_EntryMatchesMutation ==
  [][\A r \in ReqIds :
       (reqs[r].pc = "update" /\ reqs'[r].pc = "history")
         => /\ HistoryData(reqs[r]).fromStatus = ticket.status
            /\ HistoryData(reqs[r]).toStatus = ticket'.status]_vars

\* C3: whenever no request is in flight, the ticket's status is the toStatus
\* of its newest history entry, also after a handler has failed between its
\* ticket update and its history insert.
C3_TicketMatchesNewestEntry ==
  InFlight = {} => ticket.status = history[Len(history)].toStatus

\* C4: a handler whose loaded status is no longer the stored one, and whose
\* target differs from the stored one, does not write: it answers 409 and
\* leaves ticket and history alone.
C4_LoserGetsConflict ==
  [][\A r \in ReqIds :
       ( /\ reqs[r].pc = "update"
         /\ HistoryData(reqs[r]).toStatus # Undefined
         /\ reqs[r].readStatus # ticket.status
         /\ HistoryData(reqs[r]).toStatus # ticket.status
         /\ reqs'[r] # reqs[r] )
         => /\ resp'.code = 409
            /\ ticket' = ticket
            /\ history' = history]_vars

\* C5: no step moves the ticket from SUBMITTED to DEV_IN_PROGRESS while its
\* assigned developer is null before and after the step.
C5_StartNeedsDeveloper ==
  [][~( /\ ticket.status = "SUBMITTED"
        /\ ticket'.status = "DEV_IN_PROGRESS"
        /\ ticket.assignedDeveloperId = NULL
        /\ ticket'.assignedDeveloperId = NULL )]_vars

C7_ApproveScenario ==
  (InFlight = {} /\ resp = Response("approve", 200, NULL))
    => /\ ticket.status = "SUBMITTED"
       /\ ticket.processOwnerId \in Users
       /\ isTicketApprover(UserEmail[ticket.processOwnerId])
       /\ ticket.submittedAt # NoDate
       /\ ticket.cancelledAt = NoDate
       /\ ticket.deployedAt = NoDate
       /\ Len(history) = 2
       /\ history[1].fromStatus = NULL
       /\ history[1].toStatus = "FOR_PD_APPROVAL"
       /\ history[2].fromStatus = "FOR_PD_APPROVAL"
       /\ history[2].toStatus = "SUBMITTED"
       /\ history[2].changedById = ticket.processOwnerId
       /\ history[2].reason \in {"Approved by process owner", "because"}

\* an approval without a reason has just answered 200
C7_Witness ==
  /\ InFlight = {}
  /\ resp = Response("approve", 200, NULL)
  /\ Len(history) = 2
  /\ history[2].reason = "Approved by process owner"

\* C8: a cancel request of a caller who is not the submitter, or for a ticket
\* that is not in FOR_PD_APPROVAL when the handler loads it, is answered 4xx
\* and writes nothing; a cancel handler goes on to its update only for the
\* submitter of a ticket loaded in FOR_PD_APPROVAL.
C8_CancelOnlyBySubmitterWhilePending ==
  [][ /\ \A r \in ReqIds, u \in Users :
           ( /\ TicketPATCH(r, u)
             /\ (u # ticket.submitterId \/ ticket.status # "FOR_PD_APPROVAL") )
             => /\ resp'.kind = "cancel"
                /\ resp'.code \in {400, 403}
                /\ UNCHANGED <<ticket, history, reqs>>
      /\ \A r \in ReqIds :
           (reqs[r].pc = "idle" /\ reqs'[r].kind = "cancel")
             => /\ reqs'[r].actor = ticket.submitterId
                /\ ticket.status = "FOR_PD_APPROVAL" ]_vars

\* the submitter has just been refused a cancel of a ticket in QA_TESTING
C8_Witness ==
  /\ resp = Response("cancel", 400, "Can only cancel tickets awaiting approval")
  /\ ticket.status = "QA_TESTING"
  /\ ticket.cancelledAt = NoDate
  /\ ticket.cancelledById = NULL
  /\ history[Len(history)].toStatus = "QA_TESTING"

\* C9: cancelledAt is set exactly when the status is CANCELLED and deployedAt
\* exactly when it is DEPLOYED.
C9_TerminalTimestampPairsWithStatus ==
  /\ ticket.cancelledAt # NoDate <=> ticket.status = "CANCELLED"
  /\ ticket.deployedAt # NoDate <=> ticket.status = "DEPLOYED"

\* C10: a provenance timestamp that is set is never written again.
C10_TimestampsSetOnce ==
  [][ /\ ticket.submittedAt # NoDate => ticket'.submittedAt = ticket.submittedAt
      /\ ticket.cancelledAt # NoDate => ticket'.cancelledAt = ticket.cancelledAt
      /\ ticket.deployedAt # NoDate => ticket'.deployedAt = ticket.deployedAt
    ]_vars

\* C11: no two Ticket rows hold the same ticket number; within one year-month
\* prefix the sequence numbers grow with the order of creation; the first
\* ticket of a prefix has sequence 1.
C11_TicketNumbersUnique ==
  \A i, j \in DOMAIN tickets :
    /\ i < j => tickets[i].ticketNumber # tickets[j].ticketNumber
    /\ (i < j /\ tickets[i].ticketNumber.prefix = tickets[j].ticketNumber.prefix)
         => parseInt(tickets[i].ticketNumber.sequence)
              < parseInt(tickets[j].ticketNumber.sequence)
    /\ (\A k \in DOMAIN tickets :
          tickets[k].ticketNumber.prefix = tickets[i].ticketNumber.prefix
            => i <= k)
         => parseInt(tickets[i].ticketNumber.sequence) = 1

\* C12: a status-update request for a pair (from, to) outside the transition
\* table, and an assign request with startDevelopment = true for a ticket
\* that is not SUBMITTED, are answered 400 and write nothing.
C12_UnlistedPairsFail ==
  [][\A r \in ReqIds, u \in Users :
       LET table == {<<"DEV_IN_PROGRESS", "QA_TESTING">>,
                     <<"QA_TESTING", "PD_TESTING">>,
                     <<"PD_TESTING", "FOR_DEPLOYMENT">>,
                     <<"FOR_DEPLOYMENT", "DEPLOYED">>}
       IN /\ \A newStatus \in NewStatuses :
               ( /\ FreeSlot(r)
                 /\ <<ticket.status, newStatus>> \notin table
                 /\ StatusBody(r, u, newStatus) )
                 => /\ resp'.kind = "status"
                    /\ resp'.code = 400
                    /\ UNCHANGED <<ticket, history, reqs>>
          /\ \A developerId \in DeveloperIds, qaId \in QaIds :
               ( /\ FreeSlot(r)
                 /\ UserTicketRole[u] = "PROJECT_MANAGER"
                 /\ ticket.status # "SUBMITTED"
                 /\ AssignBody(r, u, developerId, qaId, TRUE) )
                 => /\ resp'.kind = "assign"
                    /\ resp'.code = 400
                    /\ UNCHANGED <<ticket, history, reqs>>]_vars

\* C13: when the newest history entry records a request that succeeded and no
\* request is in flight, the same request sent again by the same actor
\* (approve, reject, submitter cancel, start of development with the same
\* assignment, status update to the same status) is answered 400 and writes
\* nothing.
C13_ReplayRejected ==
  [][\A r \in ReqIds :
       (FreeSlot(r) /\ InFlight = {} /\ Len(history) > 1)
         => LET last == history[Len(history)]
                u == last.changedById
                refused == /\ resp'.code = 400
                           /\ UNCHANGED <<ticket, history, reqs>>
            IN /\ ( /\ last.toStatus = "SUBMITTED"
                    /\ ApprovalsPOST(r, u)
                    /\ "approve" \in {resp'.kind, reqs'[r].kind} ) => refused
               /\ ( /\ last.toStatus = "CANCELLED"
                    /\ ticket.processOwnerId = u
                    /\ ApprovalsPOST(r, u)
                    /\ "reject" \in {resp'.kind, reqs'[r].kind} ) => refused
               /\ ( /\ last.toStatus = "CANCELLED"
                    /\ ticket.processOwnerId = NULL
                    /\ TicketPATCH(r, u) ) => refused
               /\ \A developerId \in DeveloperIds, qaId \in QaIds :
                    ( /\ last.toStatus = "DEV_IN_PROGRESS"
                      /\ ticket.status = "DEV_IN_PROGRESS"
                      /\ developerId # Undefined
                           => OrNull(developerId) = ticket.assignedDeveloperId
                      /\ qaId # Undefined => OrNull(qaId) = ticket.assignedQaId
                      /\ AssignBody(r, u, developerId, qaId, TRUE) ) => refused
               /\ ( /\ last.toStatus \in updateStatusSchema
                    /\ StatusBody(r, u, last.toStatus) ) => refused]_vars

\* C14: an SAP call with the right key, a well-formed body and an existing
\* submitter is not refused; the row it inserts is SUBMITTED with SAP's
\* submitter, processOwnerId null and submittedAt set; when it answers 200 the
\* ticket has exactly one history entry, null -> SUBMITTED.
C14_SapCreatesSubmitted ==
  [][ /\ \A c \in ReqIds, apiKey \in ApiKeys :
           ( /\ FreeCreate(c)
             /\ env.SAP_API_KEY # NULL
             /\ apiKey = env.SAP_API_KEY
             /\ env.sapSubmitter
             /\ SapBody(c, apiKey, TRUE) )
             => /\ creates'[c].pc = "number"
                /\ creates'[c].kind = "sap"
      /\ \A c \in ReqIds :
           ( /\ creates[c].kind = "sap"
             /\ creates[c].pc = "create"
             /\ creates'[c].pc = "history" )
             => /\ Len(tickets') = Len(tickets) + 1
                /\ LET new == tickets'[Len(tickets')].data
                   IN /\ new.status = "SUBMITTED"
                      /\ new.submitterId = SAP_SUBMITTER_ID
                      /\ new.processOwnerId = NULL
                      /\ new.submittedAt # NoDate
      /\ \A c \in ReqIds :
           ( /\ creates[c].kind = "sap"
             /\ creates[c].pc = "history"
             /\ creates'[c].pc = "idle"
             /\ resp'.code = 200 )
             => LET id == creates[c].ticketId
                    mine == {i \in DOMAIN entries' : entries'[i].ticketId = id}
                IN /\ tickets'[id].data.status = "SUBMITTED"
                   /\ Cardinality(mine) = 1
                   /\ \A i \in mine :
                        /\ entries'[i].entry.fromStatus = NULL
                        /\ entries'[i].entry.toStatus = "SUBMITTED" ]_vars

\* an SAP call has answered 200 and its ticket is the second row
C14_Witness ==
  /\ CreatesInFlight = {}
  /\ resp = Response("sap", 200, NULL)
  /\ Len(tickets) = 2
  /\ tickets[2].data.status = "SUBMITTED"
  /\ tickets[2].data.processOwnerId = NULL
  /\ entries[Len(entries)] =
       EntryRow(2, HistoryEntry(NULL, "SUBMITTED", SAP_SUBMITTER_ID,
                                "Auto-created by SAP integration"))

\* C15: an SAP call is answered 401 when the header is absent, the server key
\* is unset or the two differ, else 400 when the body is malformed, else 404
\* when the submitter's User row is missing; such a call inserts no ticket and
\* no history entry, starts no handler, and the number the next creation would
\* be given stays the same.
C15_RefusedSapCallWritesNothing ==
  [][\A c \in ReqIds, apiKey \in ApiKeys, valid \in BOOLEAN :
       LET unauthorized == \/ apiKey = NULL
                           \/ env.SAP_API_KEY = NULL
                           \/ apiKey # env.SAP_API_KEY
       IN ( /\ FreeCreate(c)
            /\ SapBody(c, apiKey, valid)
            /\ unauthorized \/ ~valid \/ ~env.sapSubmitter )
            => /\ resp'.kind = "sap"
               /\ resp'.code = IF unauthorized THEN 401
                               ELSE IF ~valid THEN 400 ELSE 404
               /\ UNCHANGED <<tickets, entries, creates>>
               /\ generateTicketNumber(Prefix(today'), tickets')
                    = generateTicketNumber(Prefix(today), tickets)]_vars

\* a call has been refused on a server whose SAP_API_KEY is unset
C15_Witness ==
  /\ resp = Response("sap", 401, "Unauthorized - Invalid or missing API key")
  /\ env.SAP_API_KEY = NULL
  /\ Len(tickets) = 1
  /\ Len(entries) = 1
  /\ CreatesInFlight = {}

C17_OneCreationEntry ==
  (CreatesInFlight = {} /\ InFlight = {})
    => /\ history[1].fromStatus = NULL
       /\ history[1].toStatus = "FOR_PD_APPROVAL"
       /\ \A k \in 2..Len(history) : history[k].fromStatus # NULL
       /\ \A t \in DOMAIN tickets :
            LET mine == {i \in DOMAIN entries :
                           entries[i].ticketId = tickets[t].id}
            IN /\ Cardinality({i \in mine :
                                 entries[i].entry.fromStatus = NULL}) = 1
               /\ \A i \in mine :
                    (\A j \in mine : i <= j)
                      => /\ entries[i].entry.fromStatus = NULL
                         /\ entries[i].entry.toStatus = tickets[t].data.status

\* C18: a request to move a ticket in DEV_IN_PROGRESS to QA_TESTING goes on to
\* its update exactly when a QA tester is assigned and the caller is the
\* assigned developer or a project manager; otherwise it is answered 400 or
\* 403 and writes nothing; and every step DEV_IN_PROGRESS -> QA_TESTING is the
\* update of such a request and changes the status only.
C18_ToQaTesting ==
  [][ /\ \A r \in ReqIds, u \in Users :
           ( /\ FreeSlot(r)
             /\ ticket.status = "DEV_IN_PROGRESS"
             /\ StatusBody(r, u, "QA_TESTING") )
             => IF /\ ticket.assignedQaId # NULL
                   /\ \/ ticket.assignedDeveloperId = u
                      \/ UserTicketRole[u] = "PROJECT_MANAGER"
                THEN /\ reqs'[r].pc = "update"
                     /\ reqs'[r].actor = u
                     /\ reqs'[r].newStatus = "QA_TESTING"
                     /\ UNCHANGED <<ticket, history>>
                ELSE /\ resp'.kind = "status"
                     /\ resp'.code \in {400, 403}
                     /\ UNCHANGED <<ticket, history, reqs>>
      /\ (ticket.status = "DEV_IN_PROGRESS" /\ ticket'.status = "QA_TESTING")
           => /\ ticket.assignedQaId # NULL
              /\ ticket' = [ticket EXCEPT !.status = "QA_TESTING"]
              /\ \E r \in ReqIds :
                   /\ reqs[r].pc = "update"
                   /\ reqs'[r].pc = "history"
                   /\ \/ reqs[r].actor = ticket.assignedDeveloperId
                      \/ UserTicketRole[reqs[r].actor] = "PROJECT_MANAGER" ]_vars

\* the assigned developer has moved the ticket to QA testing
C18_Witness ==
  /\ InFlight = {}
  /\ resp = Response("status", 200, NULL)
  /\ ticket.status = "QA_TESTING"
  /\ ticket.assignedQaId = "qa"
  /\ history[Len(history)] =
       HistoryEntry("DEV_IN_PROGRESS", "QA_TESTING", "dev",
                    generateDefaultReason("QA_TESTING"))

\* C19: a request to move a ticket in QA_TESTING to PD_TESTING goes on to its
\* update exactly when the caller is the assigned QA tester or a project
\* manager; any other caller is answered 403 and nothing is written; every
\* step QA_TESTING -> PD_TESTING is the update of such a request.
C19_ToPdTesting ==
  [][ /\ \A r \in ReqIds, u \in Users :
           ( /\ FreeSlot(r)
             /\ ticket.status = "QA_TESTING"
             /\ StatusBody(r, u, "PD_TESTING") )
             => IF \/ ticket.assignedQaId = u
                   \/ UserTicketRole[u] = "PROJECT_MANAGER"
                THEN /\ reqs'[r].pc = "update"
                     /\ reqs'[r].actor = u
                     /\ reqs'[r].newStatus = "PD_TESTING"
                     /\ UNCHANGED <<ticket, history>>
                ELSE /\ resp'.kind = "status"
                     /\ resp'.code = 403
                     /\ UNCHANGED <<ticket, history, reqs>>
      /\ (ticket.status = "QA_TESTING" /\ ticket'.status = "PD_TESTING")
           => /\ ticket' = [ticket EXCEPT !.status = "PD_TESTING"]
              /\ \E r \in ReqIds :
                   /\ reqs[r].pc = "update"
                   /\ reqs'[r].pc = "history"
                   /\ \/ reqs[r].actor = ticket.assignedQaId
                      \/ UserTicketRole[reqs[r].actor] = "PROJECT_MANAGER" ]_vars

\* the project manager has taken the QA tester off a ticket in QA testing, and
\* a caller who is not a project manager has then been refused
C19_Witness ==
  /\ resp = Response("status", 403,
                     "Only the assigned QA or project manager can move to PD Testing")
  /\ ticket.status = "QA_TESTING"
  /\ ticket.assignedQaId = NULL
  /\ history[Len(history)].toStatus = "QA_TESTING"

\* C20: a request to move a ticket in PD_TESTING to FOR_DEPLOYMENT goes on to
\* its update exactly when the caller is on the approver list, holds a head or
\* director flag, or is a project manager; any other caller is answered 403
\* and nothing is written; every step PD_TESTING -> FOR_DEPLOYMENT is the
\* update of such a request.
C20_ToForDeployment ==
  [][ /\ \A r \in ReqIds, u \in Users :
           ( /\ FreeSlot(r)
             /\ ticket.status = "PD_TESTING"
             /\ StatusBody(r, u, "FOR_DEPLOYMENT") )
             => IF \/ isTicketApprover(UserEmail[u])
                   \/ UserIsHead[u]
                   \/ UserTicketRole[u] = "PROJECT_MANAGER"
                THEN /\ reqs'[r].pc = "update"
                     /\ reqs'[r].actor = u
                     /\ reqs'[r].newStatus = "FOR_DEPLOYMENT"
                     /\ UNCHANGED <<ticket, history>>
                ELSE /\ resp'.kind = "status"
                     /\ resp'.code = 403
                     /\ UNCHANGED <<ticket, history, reqs>>
      /\ (ticket.status = "PD_TESTING" /\ ticket'.status = "FOR_DEPLOYMENT")
           => /\ ticket' = [ticket EXCEPT !.status = "FOR_DEPLOYMENT"]
              /\ \E r \in ReqIds :
                   /\ reqs[r].pc = "update"
                   /\ reqs'[r].pc = "history"
                   /\ \/ isTicketApprover(UserEmail[reqs[r].actor])
                      \/ UserIsHead[reqs[r].actor]
                      \/ UserTicketRole[reqs[r].actor] = "PROJECT_MANAGER" ]_vars

\* a department head has approved the ticket for deployment
C20_Witness ==
  /\ InFlight = {}
  /\ resp = Response("status", 200, NULL)
  /\ ticket.status = "FOR_DEPLOYMENT"
  /\ history[Len(history)] =
       HistoryEntry("PD_TESTING", "FOR_DEPLOYMENT", "head",
                    generateDefaultReason("FOR_DEPLOYMENT"))

\* C21: a request to move a ticket in FOR_DEPLOYMENT to DEPLOYED goes on to
\* its update exactly when the caller is a project manager; any other caller,
\* approvers and holders of a head or director flag included, is answered 403
\* and nothing is written; the step FOR_DEPLOYMENT -> DEPLOYED is the update
\* of a project manager's request and sets deployedAt; every step that changes
\* deployedAt is the update of a project manager's request that loaded the
\* ticket in FOR_DEPLOYMENT and asked for DEPLOYED.
C21_ToDeployed ==
  [][ /\ \A r \in ReqIds, u \in Users :
           ( /\ FreeSlot(r)
             /\ ticket.status = "FOR_DEPLOYMENT"
             /\ StatusBody(r, u, "DEPLOYED") )
             => IF UserTicketRole[u] = "PROJECT_MANAGER"
                THEN /\ reqs'[r].pc = "update"
                     /\ reqs'[r].actor = u
                     /\ reqs'[r].newStatus = "DEPLOYED"
                     /\ UNCHANGED <<ticket, history>>
                ELSE /\ resp' = Response("status", 403,
                          "Only project managers can mark tickets as deployed")
                     /\ UNCHANGED <<ticket, history, reqs>>
      /\ (ticket.status = "FOR_DEPLOYMENT" /\ ticket'.status = "DEPLOYED")
           => /\ ticket'.deployedAt # NoDate
              /\ ticket' = [ticket EXCEPT !.status = "DEPLOYED",
                                          !.deployedAt = clock]
              /\ \E r \in ReqIds :
                   /\ reqs[r].pc = "update"
                   /\ reqs'[r].pc = "history"
                   /\ UserTicketRole[reqs[r].actor] = "PROJECT_MANAGER"
      /\ ticket'.deployedAt # ticket.deployedAt
           => /\ ticket'.status = "DEPLOYED"
              /\ \E r \in ReqIds :
                   /\ reqs[r].pc = "update"
                   /\ reqs'[r].pc = "history"
                   /\ reqs[r].kind = "status"
                   /\ reqs[r].readStatus = "FOR_DEPLOYMENT"
                   /\ reqs[r].newStatus = "DEPLOYED"
                   /\ UserTicketRole[reqs[r].actor] = "PROJECT_MANAGER" ]_vars

\* the project manager has marked the ticket deployed
C21_Witness ==
  /\ InFlight = {}
  /\ resp = Response("status", 200, NULL)
  /\ ticket.status = "DEPLOYED"
  /\ ticket.deployedAt # NoDate
  /\ history[Len(history)] =
       HistoryEntry("FOR_DEPLOYMENT", "DEPLOYED", "pm",
                    generateDefaultReason("DEPLOYED"))

\* C22: a reject request of an approver for a ticket in FOR_PD_APPROVAL with
\* no reason or an empty one is answered 400, the ticket stays in
\* FOR_PD_APPROVAL with cancelledAt, cancelledBy and cancellationReason null
\* and no history entry is appended; with a reason the request goes on, its
\* update sets CANCELLED, cancelledAt, cancelledBy = the approver and
\* cancellationReason = the reason, and it appends one entry with the reason.
C22_RejectNeedsReason ==
  [][ /\ \A r \in ReqIds, u \in Users, reason \in ApprovalReasons :
           ( /\ FreeSlot(r)
             /\ isTicketApprover(UserEmail[u])
             /\ ticket.status = "FOR_PD_APPROVAL"
             /\ ApprovalsBody(r, u, "reject", reason) )
             => IF reason = Undefined \/ reason = ""
                THEN /\ resp' = Response("reject", 400,
                                         "Rejection reason is required")
                     /\ UNCHANGED <<ticket, history, reqs>>
                     /\ ticket'.status = "FOR_PD_APPROVAL"
                     /\ ticket'.cancelledAt = NoDate
                     /\ ticket'.cancelledById = NULL
                     /\ ticket'.cancellationReason = NULL
                ELSE /\ reqs'[r].pc = "update"
                     /\ reqs'[r].kind = "reject"
                     /\ reqs'[r].actor = u
                     /\ reqs'[r].reason = reason
                     /\ UNCHANGED <<ticket, history>>
      /\ \A r \in ReqIds :
           ( /\ reqs[r].kind = "reject"
             /\ reqs[r].pc = "update"
             /\ reqs'[r].pc = "history" )
             => /\ reqs[r].reason \notin {Undefined, ""}
                /\ ticket'.status = "CANCELLED"
                /\ ticket'.cancelledAt = clock
                /\ ticket'.cancelledAt # NoDate
                /\ ticket'.cancelledById = reqs[r].actor
                /\ isTicketApprover(UserEmail[reqs[r].actor])
                /\ ticket'.cancellationReason = reqs[r].reason
                /\ history' = history
      /\ \A r \in ReqIds :
           ( /\ reqs[r].kind = "reject"
             /\ reqs[r].pc = "history"
             /\ reqs'[r].pc = "idle"
             /\ resp'.code = 200 )
             => /\ history' = Append(history,
                     HistoryEntry("FOR_PD_APPROVAL", "CANCELLED",
                                  reqs[r].actor, reqs[r].reason))
                /\ ticket'.cancellationReason = reqs[r].reason
                /\ UNCHANGED ticket ]_vars

\* the approver's rejection with a reason has answered 200
C22_Witness ==
  /\ InFlight = {}
  /\ resp = Response("reject", 200, NULL)
  /\ ticket.status = "CANCELLED"
  /\ ticket.cancelledAt # NoDate
  /\ ticket.cancelledById = "apr"
  /\ ticket.cancellationReason = "because"
  /\ Len(history) = 2
  /\ history[2] = HistoryEntry("FOR_PD_APPROVAL", "CANCELLED", "apr", "because")

\* C23: an assign request of a caller who is not a project manager is answered
\* 403; a project manager's request for a ticket in FOR_PD_APPROVAL,
\* FOR_DEPLOYMENT, DEPLOYED or CANCELLED is answered 400; neither writes
\* anything. A project manager's request naming an existing developer and QA
\* tester for a ticket in SUBMITTED, DEV_IN_PROGRESS, QA_TESTING or PD_TESTING
\* goes on to its update. Every step that changes the assigned developer or QA
\* tester is the update of a project manager's assign request that loaded the
\* ticket in one of those four statuses.
C23_AssignByManagerWhileOpen ==
  [][ /\ \A r \in ReqIds, u \in Users :
           (AssignPOST(r, u) /\ UserTicketRole[u] # "PROJECT_MANAGER")
             => /\ resp' = Response("assign", 403, "Forbidden")
                /\ UNCHANGED <<ticket, history, reqs>>
      /\ \A r \in ReqIds, u \in Users :
           ( /\ FreeSlot(r)
             /\ UserTicketRole[u] = "PROJECT_MANAGER"
             /\ "assign" \in {resp'.kind, reqs'[r].kind} )
             => \A developerId \in DeveloperIds, qaId \in QaIds,
                   startDevelopment \in BOOLEAN :
                  AssignBody(r, u, developerId, qaId, startDevelopment)
                    => IF ticket.status \in {"FOR_PD_APPROVAL", "FOR_DEPLOYMENT",
                                              "DEPLOYED", "CANCELLED"}
                       THEN /\ resp' = Response("assign", 400,
                                 "Ticket cannot be assigned in its current status")
                            /\ UNCHANGED <<ticket, history, reqs>>
                       ELSE IF /\ developerId \in {Undefined, "", "dev"}
                               /\ qaId \in {Undefined, "", "qa"}
                       THEN /\ reqs'[r].pc = "update"
                            /\ reqs'[r].kind = "assign"
                            /\ UNCHANGED <<ticket, history>>
                       ELSE /\ resp'.kind = "assign"
                            /\ resp'.code = 400
                            /\ UNCHANGED <<ticket, history, reqs>>
      /\ ( \/ ticket'.assignedDeveloperId # ticket.assignedDeveloperId
           \/ ticket'.assignedQaId # ticket.assignedQaId )
           => \E r \in ReqIds :
                /\ reqs[r].pc = "update"
                /\ reqs'[r].pc # "update"
                /\ reqs[r].kind = "assign"
                /\ UserTicketRole[reqs[r].actor] = "PROJECT_MANAGER"
                /\ reqs[r].readStatus \in {"SUBMITTED", "DEV_IN_PROGRESS",
                                            "QA_TESTING", "PD_TESTING"} ]_vars

\* the project manager has been refused an assignment on a ticket that awaits
\* deployment; developer and QA tester are who they were
C23_Witness ==
  /\ resp = Response("assign", 400,
                     "Ticket cannot be assigned in its current status")
  /\ ticket.status = "FOR_DEPLOYMENT"
  /\ ticket.assignedDeveloperId = "dev"
  /\ ticket.assignedQaId = "qa"
  /\ InFlight = {}

\* C24: a project manager's assign request without startDevelopment, or with
\* startDevelopment false, never asks for a new status; the update of an
\* assign request that asks for no new status leaves status, submittedAt,
\* cancelledAt, deployedAt, submitter and process owner as they were, appends
\* no history entry and answers 200.
C24_AssignIsNoTransition ==
  [][ /\ \A r \in ReqIds, u \in Users :
           ( /\ FreeSlot(r)
             /\ UserTicketRole[u] = "PROJECT_MANAGER"
             /\ "assign" \in {resp'.kind, reqs'[r].kind} )
             => \A developerId \in DeveloperIds, qaId \in QaIds :
                  AssignBody(r, u, developerId, qaId, FALSE)
                    => /\ UNCHANGED <<ticket, history>>
                       /\ reqs'[r].pc = "update"
                            => reqs'[r].newStatus = Undefined
      /\ \A r \in ReqIds :
           ( /\ reqs[r].kind = "assign"
             /\ reqs[r].pc = "update"
             /\ reqs[r].newStatus = Undefined
             /\ reqs'[r] # reqs[r] )
             => /\ ticket'.status = ticket.status
                /\ ticket'.submittedAt = ticket.submittedAt
                /\ ticket'.cancelledAt = ticket.cancelledAt
                /\ ticket'.deployedAt = ticket.deployedAt
                /\ ticket'.submitterId = ticket.submitterId
                /\ ticket'.processOwnerId = ticket.processOwnerId
                /\ history' = history
                /\ reqs'[r].pc = "idle"
                /\ resp' = Response("assign", 200, NULL) ]_vars

\* the project manager has taken the QA tester off a ticket in PD testing:
\* the newest history entry is still the move to PD testing
C24_Witness ==
  /\ InFlight = {}
  /\ resp = Response("assign", 200, NULL)
  /\ ticket.status = "PD_TESTING"
  /\ ticket.assignedQaId = NULL
  /\ history[Len(history)].toStatus = "PD_TESTING"
  /\ Len(history) = 5

\* C25: once the project manager has assigned a developer to the approved
\* ticket, the manager's request to start development (naming no developer or
\* a developer) is accepted; its update moves the ticket from SUBMITTED to
\* DEV_IN_PROGRESS with a developer assigned and deployedAt and cancelledAt
\* null, and its history insert appends SUBMITTED -> DEV_IN_PROGRESS by the
\* manager as the one entry added since the approval.
C25_AssignThenStart ==
  [][ /\ \A r \in ReqIds, u \in Users :
           ( /\ FreeSlot(r)
             /\ UserTicketRole[u] = "PROJECT_MANAGER"
             /\ ticket.status = "SUBMITTED"
             /\ ticket.assignedDeveloperId # NULL
             /\ "assign" \in {resp'.kind, reqs'[r].kind} )
             => \A developerId \in {Undefined, "dev"},
                   qaId \in {Undefined, "qa"} :
                  AssignBody(r, u, developerId, qaId, TRUE)
                    => /\ reqs'[r].pc = "update"
                       /\ reqs'[r].actor = u
                       /\ reqs'[r].newStatus = "DEV_IN_PROGRESS"
                       /\ Len(history) = 2
                       /\ UNCHANGED <<ticket, history>>
      /\ \A r \in ReqIds :
           ( /\ reqs[r].kind = "assign"
             /\ reqs[r].newStatus = "DEV_IN_PROGRESS"
             /\ reqs[r].developerId \in {Undefined, "dev"}
             /\ ticket.assignedDeveloperId # NULL
             /\ reqs[r].pc = "update"
             /\ reqs'[r].pc # "update" )
             => /\ ticket.status = "SUBMITTED"
                /\ ticket'.status = "DEV_IN_PROGRESS"
                /\ ticket'.assignedDeveloperId = "dev"
                /\ ticket'.deployedAt = NoDate
                /\ ticket'.cancelledAt = NoDate
                /\ reqs'[r].pc = "history"
                /\ history' = history
      /\ \A r \in ReqIds :
           ( /\ reqs[r].kind = "assign"
             /\ reqs[r].pc = "history"
             /\ reqs'[r].pc = "idle"
             /\ ticket.assignedDeveloperId # NULL )
             => /\ resp' = Response("assign", 200, NULL)
                /\ history' = Append(history,
                     HistoryEntry("SUBMITTED", "DEV_IN_PROGRESS", reqs[r].actor,
                                  "Development started by Project Manager"))
                /\ UserTicketRole[reqs[r].actor] = "PROJECT_MANAGER"
                /\ Len(history') = 3
                /\ ticket'.status = "DEV_IN_PROGRESS"
                /\ ticket'.assignedDeveloperId # NULL
                /\ ticket'.deployedAt = NoDate
                /\ ticket'.cancelledAt = NoDate ]_vars

\* development has started on a ticket with a developer and no QA tester
C25_Witness ==
  /\ InFlight = {}
  /\ resp = Response("assign", 200, NULL)
  /\ ticket.status = "DEV_IN_PROGRESS"
  /\ ticket.assignedDeveloperId = "dev"
  /\ ticket.assignedQaId = NULL
  /\ ticket.deployedAt = NoDate
  /\ ticket.cancelledAt = NoDate
  /\ Len(history) = 3
  /\ history[3] = HistoryEntry("SUBMITTED", "DEV_IN_PROGRESS", "pm",
                               "Development started by Project Manager")

\* C26: a user may comment on the ticket, and upload a file to it, exactly
\* when the user may view it: a comment or upload request for the ticket is
\* answered 403 exactly when GET of the ticket by the same user would be.
C26_CommentIffView ==
  [][\A u \in Users :
       /\ (CommentsPOST(u, TicketId) /\ resp'.code # 400)
            => (resp'.code = 403 <=> ~canView(u, ticket))
       /\ (AttachmentsPOST(u, TicketId) /\ resp'.code # 400)
            => (resp'.code = 403 <=> ~canView(u, ticket))]_vars

\* C27: the row POST /api/tickets inserts for a caller on the approver list
\* is in SUBMITTED, not in FOR_PD_APPROVAL.
C27_ApproverBypassesApproval ==
  [][\A c \in ReqIds :
       ( /\ creates[c].kind = "create"
         /\ creates[c].pc = "create"
         /\ creates'[c].pc = "history"
         /\ shouldBypassApproval(UserEmail[creates[c].actor]) )
         => tickets'[Len(tickets')].data.status = "SUBMITTED"]_vars

C29_HistoryAppendOnly ==
  [][ /\ Len(history') >= Len(history)
      /\ SubSeq(history', 1, Len(history)) = history
      /\ Len(entries') >= Len(entries)
      /\ SubSeq(entries', 1, Len(entries)) = entries ]_vars

\* the ticket has gone through the whole pipeline: seven entries
C29_Witness ==
  /\ InFlight = {}
  /\ ticket.status = "DEPLOYED"
  /\ Len(history) = 7
  /\ history[1] = HistoryEntry(NULL, "FOR_PD_APPROVAL", "sub", "Ticket created")
  /\ history[7].toStatus = "DEPLOYED"

\* C30: the submitter of the ticket is the user who created it, and no step
\* of an approve, reject, cancel, assign or status-update request changes
\* submitterId, also when the request fails at its history insert.
C30_SubmitterImmutable ==
  [][ /\ ticket.submitterId = history[1].changedById
      /\ ticket'.submitterId = ticket.submitterId ]_vars

\* approval, assignment and status updates have all written the ticket and
\* the submitter is still its creator
C30_Witness ==
  /\ InFlight = {}
  /\ ticket.status = "QA_TESTING"
  /\ ticket.processOwnerId = "apr"
  /\ ticket.assignedDeveloperId = "dev"
  /\ ticket.assignedQaId = "qa"
  /\ ticket.submitterId = "sub"
  /\ history[1].changedById = "sub"

\* C31: processOwnerId is written only by an approval: a step that changes
\* processOwnerId moves the ticket from FOR_PD_APPROVAL to SUBMITTED and
\* stores an approver, and a step that cancels the ticket (rejection or
\* cancellation by the submitter) changes only status, cancelledAt,
\* cancelledById and cancellationReason, so processOwnerId stays null.
C31_OwnerSetOnlyByApproval ==
  [][ /\ ticket'.processOwnerId # ticket.processOwnerId
           => /\ ticket.status = "FOR_PD_APPROVAL"
              /\ ticket'.status = "SUBMITTED"
              /\ isTicketApprover(UserEmail[ticket'.processOwnerId])
      /\ (ticket.status # "CANCELLED" /\ ticket'.status = "CANCELLED")
           => /\ ticket'.processOwnerId = NULL
              /\ ticket' = [ticket EXCEPT
                              !.status = "CANCELLED",
                              !.cancelledAt = ticket'.cancelledAt,
                              !.cancelledById = ticket'.cancelledById,
                              !.cancellationReason =
                                 ticket'.cancellationReason] ]_vars

\* C32: the transition table is looked up before the actor is authorized:
\* when the stored status is not FOR_PD_APPROVAL, an approve or reject
\* request and a cancel request are answered 400 (invalid transition)
\* whoever sends them, approver or submitter or not, and never 403.
C32_LookupBeforeAuthorization ==
  [][ \A r \in ReqIds, u \in Users :
        (ticket.status # "FOR_PD_APPROVAL"
           /\ (ApprovalsPOST(r, u) \/ TicketPATCH(r, u)))
          => /\ resp'.kind \in {"approvals", "cancel"} \cup Actions
             /\ resp'.code = 400
             /\ UNCHANGED <<ticket, history, reqs>> ]_vars

\* C33: authorization is evaluated before preconditions: a request to move
\* a ticket from DEV_IN_PROGRESS to QA_TESTING, sent by a user who is
\* neither the assigned developer nor a project manager while no QA is
\* assigned, is answered 403 (forbidden), not 400 (precondition failed).
C33_ForbiddenBeforePrecondition ==
  [][ \A r \in ReqIds, u \in Users :
        ( /\ FreeSlot(r)
          /\ ticket.status = "DEV_IN_PROGRESS"
          /\ ticket.assignedQaId = NULL
          /\ ticket.assignedDeveloperId # u
          /\ UserTicketRole[u] # "PROJECT_MANAGER"
          /\ StatusBody(r, u, "QA_TESTING") )
          => /\ resp'.kind = "status"
             /\ resp'.code = 403
             /\ UNCHANGED <<ticket, history, reqs>> ]_vars

\* C34: generateTicketNumber returns the prefix of the current year and
\* month with the sequence 1 + the numerically largest sequence among the
\* tickets that have that prefix, 1 when there are none, also when that
\* largest sequence is 9999 or more.
C34_NextAfterNumericallyLargest ==
  [][ \A c \in ReqIds :
        GenerateTicketNumber(c) =>
          LET prefix == creates[c].prefix
              existing == {parseInt(tickets[i].ticketNumber.sequence) :
                             i \in {j \in DOMAIN tickets :
                                      tickets[j].ticketNumber.prefix = prefix}}
              largest == IF existing = {} THEN 0
                         ELSE CHOOSE n \in existing : \A m \in existing : m <= n
          IN /\ creates'[c].ticketNumber.prefix = prefix
             /\ parseInt(creates'[c].ticketNumber.sequence) = largest + 1 ]_vars

\* C35: the stored status never regresses: in the order FOR_PD_APPROVAL <
\* SUBMITTED < DEV_IN_PROGRESS < QA_TESTING < PD_TESTING < FOR_DEPLOYMENT <
\* DEPLOYED every step that changes the status moves it to a later status,
\* or to CANCELLED from FOR_PD_APPROVAL, also when the request that writes
\* read the ticket before other requests advanced it.
C35_StatusNeverRegresses ==
  [][ LET pipeline == <<"FOR_PD_APPROVAL", "SUBMITTED", "DEV_IN_PROGRESS",
                        "QA_TESTING", "PD_TESTING", "FOR_DEPLOYMENT",
                        "DEPLOYED">>
          Later(to, from) ==
            \E i, j \in DOMAIN pipeline :
              pipeline[i] = from /\ pipeline[j] = to /\ i < j
      IN ticket'.status # ticket.status
           => \/ Later(ticket'.status, ticket.status)
              \/ /\ ticket.status = "FOR_PD_APPROVAL"
                 /\ ticket'.status = "CANCELLED" ]_vars

\* C36: no pipeline stage is skipped: whenever no request is part-way
\* through its writes, the history of the ticket holds an entry with
\* toStatus = T for every pipeline status T from the status the ticket was
\* created in to its stored status, both included, whatever requests were
\* served before and however they ended.
C36_NoStageSkipped ==
  LET pipeline == <<"FOR_PD_APPROVAL", "SUBMITTED", "DEV_IN_PROGRESS",
                    "QA_TESTING", "PD_TESTING", "FOR_DEPLOYMENT", "DEPLOYED">>
      At(status) == CHOOSE i \in DOMAIN pipeline : pipeline[i] = status
  IN (InFlight = {} /\ ticket.status # "CANCELLED")
       => \A k \in At(history[1].toStatus) .. At(ticket.status) :
            \E i \in DOMAIN history : history[i].toStatus = pipeline[k]

\* C37: the QA assignment that entering QA_TESTING requires persists while
\* the ticket is there: in every reachable state a ticket whose stored
\* status is QA_TESTING has a non-null assignedQaId.
C37_QaAssignedWhileInQaTesting ==
  ticket.status = "QA_TESTING" => ticket.assignedQaId # NULL

\* C38: an assign request validates before it writes: when its developerId
\* names no user with role DEVELOPER, or its qaId names no user with role
\* QA, it is answered 400 and changes neither the assignees nor the status
\* nor the history, also when the other id is valid and startDevelopment is
\* true; so an assignee stored by any step is a DEVELOPER, respectively a
\* QA, user.
C38_AssignValidatesBeforeWriting ==
  [][ /\ \A r \in ReqIds, u \in Users :
           ( /\ FreeSlot(r)
             /\ UserTicketRole[u] = "PROJECT_MANAGER"
             /\ "assign" \in {resp'.kind, reqs'[r].kind} )
             => \A developerId \in DeveloperIds, qaId \in QaIds,
                   startDevelopment \in BOOLEAN :
                  ( /\ \/ ~Not(developerId) /\ ~HasRole(developerId, "DEVELOPER")
                       \/ ~Not(qaId) /\ ~HasRole(qaId, "QA")
                    /\ AssignBody(r, u, developerId, qaId, startDevelopment) )
                    => /\ resp'.kind = "assign"
                       /\ resp'.code = 400
                       /\ UNCHANGED <<ticket, history, reqs>>
      /\ ticket'.assignedDeveloperId # ticket.assignedDeveloperId
           => \/ ticket'.assignedDeveloperId = NULL
              \/ HasRole(ticket'.assignedDeveloperId, "DEVELOPER")
      /\ ticket'.assignedQaId # ticket.assignedQaId
           => \/ ticket'.assignedQaId = NULL
              \/ HasRole(ticket'.assignedQaId, "QA") ]_vars

\* a request naming someone who is no QA user has just been refused on an
\* approved ticket: nobody is assigned and development has not started
C38_Witness ==
  /\ resp = Response("assign", 400, "Invalid QA selected")
  /\ InFlight = {}
  /\ ticket.status = "SUBMITTED"
  /\ ticket.assignedDeveloperId = NULL
  /\ ticket.assignedQaId = NULL
  /\ Len(history) = 2

\* C39: the list filter and the single-ticket predicate agree: for every
\* user id, every ticketRole and every ticket, the ticket satisfies the
\* where clause built by buildUserTicketsWhereClause(userId, ticketRole)
\* exactly when canUserViewTicket(ticket, userId, ticketRole) is true.
C39_FilterAgreesWithPredicate ==
  /\ \A userId \in Users, ticketRole \in TicketRole :
       Satisfies(ticket, buildUserTicketsWhereClause(userId, ticketRole))
         <=> canUserViewTicket(ticket, userId, ticketRole)
  /\ "function" \in DOMAIN body
       => /\ body.result =
               canUserViewTicket(ticket, body.userId, body.ticketRole)
          /\ body.result =
               Satisfies(ticket, buildUserTicketsWhereClause(body.userId,
                                                             body.ticketRole))

\* the list has just shown a deployed ticket to the QA user assigned to it,
\* who did not submit it
C39_Witness ==
  /\ "function" \in DOMAIN body
  /\ body = Answered("buildUserTicketsWhereClause", "qa", "QA", TRUE)
  /\ ticket.status = "DEPLOYED"
  /\ ticket.assignedQaId = "qa"
  /\ ticket.submitterId = "sub"
  /\ canUserViewTicket(ticket, "qa", "QA")

\* C40 as stated: the pipeline has no dead end: whenever the ticket is in
\* a status that is not terminal and no request is being served, some
\* request by some actor is accepted and moves the ticket to its next
\* status.
C40_EveryStateHasAdvancingRequest ==
  (InFlight = {} /\ ticket.status \notin TerminalStatus) => ENABLED Advance

\* C40 amended: whenever the ticket is in a status that is not terminal
\* and no request is being served, some request that moves the ticket to
\* its next status is accepted, or the ticket is in DEV_IN_PROGRESS with no
\* QA assigned and a project manager's assign request naming a QA is
\* accepted; and when handlers run on and actors cooperate, a ticket in a
\* status that is not terminal eventually reaches DEPLOYED or CANCELLED.
C40_NoDeadEnd ==
  /\ [](  (InFlight = {} /\ ticket.status \notin TerminalStatus)
            => \/ ENABLED Advance
               \/ /\ ticket.status = "DEV_IN_PROGRESS"
                  /\ ticket.assignedQaId = NULL
                  /\ ENABLED AssignQa )
  /\ (ticket.status \notin TerminalStatus)
       ~> (ticket.status \in TerminalStatus)

\* the ticket has gone through every stage and is deployed
C40_Witness ==
  /\ InFlight = {}
  /\ ticket.status = "DEPLOYED"
  /\ ticket.deployedAt # NoDate
  /\ Len(history) = 7
  /\ \A i \in 2 .. 7 : history[i].fromStatus = history[i - 1].toStatus

====
